---- MODULE Spec2Model ----
(***************************************************************************)
(* Hybrid recommendation engine of RCM_System: the latent-factor trainer   *)
(* (CollaborativeFilteringStrategy), the content index                     *)
(* (ContentBasedFilteringStrategy), the hybrid scorer with its fallback    *)
(* cascade (HybridRecommendationStrategy) and the product repository.      *)
(*                                                                         *)
(* The specifications share the variables:                                 *)
(*   Spec           training threads and a reader thread interleaving on   *)
(*                  one CollaborativeFilteringStrategy instance;           *)
(*   SpecRecommend  recommend() applied to every bounded catalog, model    *)
(*                  state and request;                                     *)
(*   SpecFallback   recommend() with no strategy ready;                    *)
(*   SpecNormalize  _normalize_scores on every bounded score map;          *)
(*   SpecScore      _score_candidates on every pair of score maps;         *)
(*   SpecRerank     recommend() next to BusinessRulesEngine;               *)
(*   SpecEvaluate   evaluate() on every bounded list of test orders;       *)
(*   SpecAggregate  _prepare_interaction_matrix on every bounded store;    *)
(*   SpecService    request threads in get_recommendation_service;         *)
(*   SpecCache      POST /recommend with its key-value cache;              *)
(*   SpecOverlap    two threads inside train on one strategy object;       *)
(*   SpecRefuse     train on every bounded store;                          *)
(*   SpecMatrix     the interaction matrix of every bounded store;         *)
(*   SpecContent    ContentBasedFilteringStrategy.recommend;               *)
(*   SpecDiversify  diversify_recommendations on every ranked list;        *)
(*   SpecTestSet    evaluate() on every bounded orders collection;         *)
(*   SpecRebuild    train after the products collection has grown;         *)
(*   SpecReady      train on two threads next to recommend and evaluate.   *)
(* Numeric library results (NMF factors, TF-IDF cosine similarities) are   *)
(* not computed: Spec tracks which training generation each published      *)
(* field belongs to and its shape, SpecRecommend draws the scores.         *)
(***************************************************************************)
EXTENDS Integers, Sequences, FiniteSets, TLC

\* ------------------------------------------------------------------ bounds
NUsers == 2
NProducts == 3
NDataProducts == 2
MaxGen == 3
MaxN == 2
MaxScore == 1
MaxRawCf == 3
MaxRawContent == 7
MaxTestOrders == 2
NRequests == 3
MaxCalls == 3
MaxQuantity == 2
MaxNegative == 2
MaxOrderLines == 2
MaxRatings == 1
MaxOrders == 10

\* ------------------------------------------------- program constants
N_COMPONENTS == 10
MIN_RATING_THRESHOLD == 2

Users == 1..NUsers
Products == 1..NProducts
\* The thread pool worker running the background task of POST /model/update.
Trainers == {"background"}
\* productCategory as the store holds it: absent, a string, or a reference
\* (ObjectId) into the categories collection; v stands for the characters
\* str() prints.
NoCategory == [kind |-> "absent", v |-> 0]
Categories == {NoCategory, [kind |-> "str", v |-> 1], [kind |-> "oid", v |-> 2]}
\* str(product['productCategory'])
Str(c) == [kind |-> "str", v |-> c.v]
\* averageRating values around MIN_RATING_THRESHOLD, totalRatings values.
Ratings == {1, 2, 3}
ReviewCounts == {0, 1}

None == [tag |-> "None"]

VARIABLES
    \* document store
    dataUsers,        \* users seen in orders or ratings
    dataProducts,     \* products seen in order lines or ratings
    dataReads,        \* number of aggregator reads of the interaction data
    \* CollaborativeFilteringStrategy fields
    model, user_features, product_features,
    user_to_idx, product_to_idx, idx_to_product,
    catalog,          \* products collection: product id -> document
    keywords,         \* users whose search history yields keywords
    searched,         \* user -> product ids in the results of their searches
    testOrders,       \* what get_recent_test_orders returns, newest first
    hybrid_service,   \* the module global _hybrid_service
    instances,        \* HybridRecommendationStrategy objects created so far
    th,               \* threads running get_recommendation_service
    cache,            \* the key-value store: key -> cached list
    origin,           \* history: key -> the request whose list is cached
    calls,            \* number of POST /recommend requests answered
    \* ContentBasedFilteringStrategy: is_ready() and product_ids
    content,
    \* numeric library results read at request time
    cfScore,          \* user_vec @ product_features, per indexed product
    similarity,       \* cosine similarity of the query to each indexed product
    \* one recommend() call
    req, resp,
    \* persisted state
    artifact,         \* the pickle at MODEL_PATH
    last_update,      \* model_metadata 'last_update' timestamp (a counter)
    \* threads
    nextGen,
    tr,               \* training calls, one per trainer thread
    rd                \* the event-loop thread running CF recommend

cfVars == <<model, user_features, product_features,
            user_to_idx, product_to_idx, idx_to_product>>
vars == <<dataUsers, dataProducts, dataReads, model, user_features,
          product_features, user_to_idx, product_to_idx, idx_to_product,
          catalog, keywords, content, cfScore, similarity, req, resp,
          artifact, last_update, nextGen, tr, rd, searched,
          testOrders, hybrid_service, instances, th, cache, origin,
          calls>>
\* State the training threads and the recommend call never write.
extVars == <<searched, testOrders, hybrid_service, instances, th, cache,
             origin, calls>>
serveVars == <<catalog, keywords, content, cfScore, similarity, req, resp>>

\* --------------------------------------------------------------- helpers
Min(a, b) == IF a <= b THEN a ELSE b

\* A published index map: the training generation that built it and its keys.
EmptyMap == [gen |-> 0, ids |-> {}]
\* A published factor matrix: the generation whose data it was fitted to and
\* the users (rows) or products (columns) it covers.
Matrix(g, ids) == [tag |-> "Matrix", gen |-> g, ids |-> ids]
\* An NMF object: the call that constructed it and the generation it was
\* fitted to (0: constructed, not fitted).
NMF(g, k) == [tag |-> "NMF", obj |-> g, k |-> k, fit |-> 0, cols |-> {}]

\* CollaborativeFilteringStrategy.is_ready
CfIsReady ==
    /\ model # None
    /\ user_features # None
    /\ product_features # None
    /\ Cardinality(user_to_idx.ids) > 0
    /\ Cardinality(product_to_idx.ids) > 0

\* ContentBasedFilteringStrategy.is_ready
ContentIsReady == content.ready

\* The content strategy when _build_content_features found no products.
NoContent == [ready |-> FALSE, ids |-> {}]
\* A products document and the absence of one.
NoDoc == [tag |-> "NoDoc"]
Docs == [cat : Categories, rating : Ratings, reviews : ReviewCounts]
DefaultCatalog ==
    [p \in Products |->
        [cat |-> [kind |-> "str", v |-> 1], rating |-> 3, reviews |-> 0]]

\* The five fields _save_model pickles.
Snapshot == [tag |-> "Pickle", model |-> model,
             user_features |-> user_features,
             product_features |-> product_features,
             user_to_idx |-> user_to_idx, product_to_idx |-> product_to_idx]

IdleTrainer == [pc |-> "idle", force |-> FALSE, gen |-> 0, users |-> {},
                prods |-> {}, readyAtCall |-> FALSE, insufficient |-> FALSE,
                saved |-> "none", stamped |-> FALSE,
                cf_success |-> FALSE, result |-> "none"]
\* The reader's observation: the generation of the first field it read, and
\* whether a later field it read belonged to another generation.
IdleReader == [pc |-> "idle", first |-> 0, torn |-> FALSE]
Observe(r, g) ==
    IF r.first = 0 THEN [r EXCEPT !.first = g]
    ELSE [r EXCEPT !.torn = r.torn \/ g # r.first]

\* A request thread before it enters get_recommendation_service.
\* _hybrid_service = None
NoService == 0
IdleThread == [pc |-> "idle", service |-> NoService]
RequestThreads == 1..NRequests
\* No search results and no orders recorded; the engine was built by an
\* earlier request.
InitExt ==
    /\ searched = [u \in Users |-> {}]
    /\ testOrders = <<>>
    /\ hybrid_service = 1
    /\ instances = {1}
    /\ th = [t \in RequestThreads |-> IdleThread]
    /\ cache = <<>>
    /\ origin = <<>>
    /\ calls = 0

\* The state _load_model leaves when MODEL_PATH holds a pickle of generation 1.
LoadedInit ==
    /\ model = [NMF(1, 1) EXCEPT !.fit = 1, !.cols = {1, 2}]
    /\ user_features = Matrix(1, {1, 2})
    /\ product_features = Matrix(1, {1, 2})
    /\ user_to_idx = [gen |-> 1, ids |-> {1, 2}]
    /\ product_to_idx = [gen |-> 1, ids |-> {1, 2}]
    /\ idx_to_product = [gen |-> 1, ids |-> {1, 2}]
    /\ artifact = [tag |-> "Pickle", model |-> model,
                   user_features |-> user_features,
                   product_features |-> product_features,
                   user_to_idx |-> user_to_idx,
                   product_to_idx |-> product_to_idx]
    /\ last_update = 1
    /\ dataUsers = {1, 2}
    /\ dataProducts = {1, 2}

\* The state __init__ leaves when MODEL_PATH does not exist.
FreshInit ==
    /\ model = None
    /\ user_features = None
    /\ product_features = None
    /\ user_to_idx = EmptyMap
    /\ product_to_idx = EmptyMap
    /\ idx_to_product = EmptyMap
    /\ artifact = None
    /\ last_update = 0
    /\ dataUsers = {}
    /\ dataProducts = {}

Init ==
    /\ FreshInit \/ LoadedInit
    /\ \/ content = NoContent /\ catalog = [p \in Products |-> NoDoc]
       \/ content = [ready |-> TRUE, ids |-> Products] /\ catalog = DefaultCatalog
    /\ keywords = {}
    /\ cfScore = [p \in Products |-> 0]
    /\ similarity = [p \in Products |-> 0]
    /\ req = None
    /\ resp = None
    /\ dataReads = 0
    /\ nextGen = 2
    /\ tr = [t \in Trainers |-> IdleTrainer]
    /\ rd = IdleReader
    /\ InitExt


\* ------------------------------------------------------ document store
\* A user places a first order or rating: the aggregator's user set grows.
AddDataUser ==
    /\ Cardinality(dataUsers) < NUsers
    /\ dataUsers' = dataUsers \cup {Cardinality(dataUsers) + 1}
    /\ UNCHANGED extVars
    /\ UNCHANGED <<dataProducts, dataReads, cfVars, serveVars, artifact,
                   last_update, nextGen, tr, rd>>

\* A product is ordered or rated for the first time.
AddDataProduct ==
    /\ Cardinality(dataProducts) < NDataProducts
    /\ dataProducts' = dataProducts \cup {Cardinality(dataProducts) + 1}
    /\ UNCHANGED extVars
    /\ UNCHANGED <<dataUsers, dataReads, cfVars, serveVars, artifact,
                   last_update, nextGen, tr, rd>>

\* ------------------------------------------- CollaborativeFilteringStrategy.train
Goto(t, pc) == [tr EXCEPT ![t].pc = pc]
\* train's `return False` / `return True`: control returns to
\* HybridRecommendationStrategy.train with cf_success.
CfReturn(t, ok) == [tr EXCEPT ![t].pc = "content", ![t].cf_success = ok]

\* train: "if not force_retrain and self.is_ready(): return True"
SkipRetrainNever(force) == FALSE
SkipRetrain(force) == ~force /\ CfIsReady

\* n_components = min(N_COMPONENTS, min(interactions.shape) - 1)
ComponentCount(users, prods) ==
    Min(N_COMPONENTS, Min(Cardinality(users), Cardinality(prods)) - 1)

\* HybridRecommendationStrategy.train is entered and calls cf_strategy.train.
TrainCall(t, force) ==
    /\ tr[t].pc = "idle"
    /\ nextGen <= MaxGen
    /\ nextGen' = nextGen + 1
    /\ tr' = [tr EXCEPT ![t] =
                IF SkipRetrain(force)
                THEN [IdleTrainer EXCEPT !.pc = "content", !.force = force,
                                         !.readyAtCall = CfIsReady,
                                         !.cf_success = TRUE]
                ELSE [IdleTrainer EXCEPT !.pc = "prepare", !.force = force,
                                         !.readyAtCall = CfIsReady,
                                         !.gen = nextGen]]
    /\ UNCHANGED extVars
    /\ UNCHANGED <<dataUsers, dataProducts, dataReads, cfVars, serveVars,
                   artifact, last_update, rd>>

\* _prepare_interaction_matrix without "if not all_users or not
\* all_products: return None".
PrepareUnguarded(t) ==
    /\ tr[t].pc = "prepare"
    /\ dataReads' = dataReads + 1
    /\ \E readOk \in BOOLEAN :
         tr' = IF ~readOk
               THEN CfReturn(t, FALSE)
               ELSE [tr EXCEPT ![t].pc = "map_users",
                               ![t].users = dataUsers,
                               ![t].prods = dataProducts]
    /\ UNCHANGED extVars
    /\ UNCHANGED <<dataUsers, dataProducts, cfVars, serveVars, artifact,
                   last_update, nextGen, rd>>

\* _prepare_interaction_matrix up to the "Insufficient data" check: the
\* repository reads may raise (caught, returns None).
Prepare(t) ==
    /\ tr[t].pc = "prepare"
    /\ dataReads' = dataReads + 1
    /\ \E readOk \in BOOLEAN :
         tr' = IF ~readOk
               THEN CfReturn(t, FALSE)
               ELSE IF dataUsers = {} \/ dataProducts = {}
               THEN [CfReturn(t, FALSE) EXCEPT ![t].insufficient = TRUE]
               ELSE [tr EXCEPT ![t].pc = "map_users",
                               ![t].users = dataUsers,
                               ![t].prods = dataProducts]
    /\ UNCHANGED extVars
    /\ UNCHANGED <<dataUsers, dataProducts, cfVars, serveVars, artifact,
                   last_update, nextGen, rd>>

\* self.user_to_idx = {uid: idx ...}
MapUsers(t) ==
    /\ tr[t].pc = "map_users"
    /\ user_to_idx' = [gen |-> tr[t].gen, ids |-> tr[t].users]
    /\ tr' = Goto(t, "map_products")
    /\ UNCHANGED extVars
    /\ UNCHANGED <<dataUsers, dataProducts, dataReads, model, user_features,
                   product_features, product_to_idx, idx_to_product,
                   serveVars, artifact, last_update, nextGen, rd>>

\* self.product_to_idx = {pid: idx ...}
MapProducts(t) ==
    /\ tr[t].pc = "map_products"
    /\ product_to_idx' = [gen |-> tr[t].gen, ids |-> tr[t].prods]
    /\ tr' = Goto(t, "map_inverse")
    /\ UNCHANGED extVars
    /\ UNCHANGED <<dataUsers, dataProducts, dataReads, model, user_features,
                   product_features, user_to_idx, idx_to_product,
                   serveVars, artifact, last_update, nextGen, rd>>

\* self.idx_to_product = {idx: pid for pid, idx in self.product_to_idx.items()}
MapInverse(t) ==
    /\ tr[t].pc = "map_inverse"
    /\ idx_to_product' = product_to_idx
    /\ tr' = Goto(t, "matrix")
    /\ UNCHANGED extVars
    /\ UNCHANGED <<dataUsers, dataProducts, dataReads, model, user_features,
                   product_features, user_to_idx, product_to_idx,
                   serveVars, artifact, last_update, nextGen, rd>>

\* The rest of _prepare_interaction_matrix: filling and rescaling the matrix
\* from further repository reads, any of which may raise (returns None).
BuildMatrix(t) ==
    /\ tr[t].pc = "matrix"
    /\ \E readOk \in BOOLEAN :
         tr' = IF readOk THEN Goto(t, "construct") ELSE CfReturn(t, FALSE)
    /\ UNCHANGED extVars
    /\ UNCHANGED <<dataUsers, dataProducts, dataReads, cfVars, serveVars,
                   artifact, last_update, nextGen, rd>>

\* self.model = NMF(n_components=n_components, ...)
Construct(t) ==
    /\ tr[t].pc = "construct"
    /\ model' = NMF(tr[t].gen, ComponentCount(tr[t].users, tr[t].prods))
    /\ tr' = Goto(t, "fit")
    /\ UNCHANGED extVars
    /\ UNCHANGED <<dataUsers, dataProducts, dataReads, user_features,
                   product_features, user_to_idx, product_to_idx,
                   idx_to_product, serveVars, artifact, last_update,
                   nextGen, rd>>

\* self.user_features = self.model.fit_transform(interactions): the NMF object
\* self.model names now is fitted to this call's matrix; fit_transform raises
\* for a component count below 1 or on a numerical failure.
Fit(t) ==
    /\ tr[t].pc = "fit"
    /\ \E fitOk \in BOOLEAN :
         IF model.k < 1 \/ ~fitOk
         THEN /\ tr' = CfReturn(t, FALSE)
              /\ UNCHANGED <<model, user_features>>
         ELSE /\ model' = [model EXCEPT !.fit = tr[t].gen,
                                        !.cols = tr[t].prods]
              /\ user_features' = Matrix(tr[t].gen, tr[t].users)
              /\ tr' = Goto(t, "components")
    /\ UNCHANGED extVars
    /\ UNCHANGED <<dataUsers, dataProducts, dataReads, product_features,
                   user_to_idx, product_to_idx, idx_to_product, serveVars,
                   artifact, last_update, nextGen, rd>>

\* self.product_features = self.model.components_ (AttributeError on an NMF
\* object that was never fitted).
Components(t) ==
    /\ tr[t].pc = "components"
    /\ IF model.fit = 0
       THEN /\ tr' = CfReturn(t, FALSE)
            /\ UNCHANGED product_features
       ELSE /\ product_features' = Matrix(model.fit, model.cols)
            /\ tr' = Goto(t, "save")
    /\ UNCHANGED extVars
    /\ UNCHANGED <<dataUsers, dataProducts, dataReads, model, user_features,
                   user_to_idx, product_to_idx, idx_to_product, serveVars,
                   artifact, last_update, nextGen, rd>>

\* _save_model: open(MODEL_PATH, 'wb') truncates the file, pickle.dump writes
\* the five fields; an exception is caught and reported as False.
SaveModel(outcome) ==
    CASE outcome = "ok" -> Snapshot
      [] outcome = "open_failed" -> artifact
      [] OTHER -> [tag |-> "Corrupt"]

\* train: "self._save_model()" -- the result is not looked at.
Save(t) ==
    /\ tr[t].pc = "save"
    /\ \E outcome \in {"ok", "open_failed", "dump_failed"} :
         /\ artifact' = SaveModel(outcome)
         /\ tr' = [tr EXCEPT ![t].pc = "stamp", ![t].saved = outcome]
    /\ UNCHANGED extVars
    /\ UNCHANGED <<dataUsers, dataProducts, dataReads, cfVars, serveVars,
                   last_update, nextGen, rd>>

\* train: "self.metadata_repo.update_last_update()" then "return True"; a
\* store failure raises into train's except, which returns False.
Stamp(t) ==
    /\ tr[t].pc = "stamp"
    /\ \E writeOk \in BOOLEAN :
         IF writeOk
         THEN /\ last_update' = last_update + 1
              /\ tr' = [CfReturn(t, TRUE) EXCEPT ![t].stamped = TRUE]
         ELSE /\ UNCHANGED last_update
              /\ tr' = CfReturn(t, FALSE)
    /\ UNCHANGED extVars
    /\ UNCHANGED <<dataUsers, dataProducts, dataReads, cfVars, serveVars,
                   artifact, nextGen, rd>>

\* HybridRecommendationStrategy.train after cf_strategy.train returned.
HybridTrainResultCfOnly(cf_success, content_ready) ==
    IF cf_success THEN "success" ELSE "failure"
HybridTrainResult(cf_success, content_ready) ==
    IF cf_success /\ content_ready THEN "success"
    ELSE IF cf_success THEN "success"
    ELSE IF content_ready THEN "success"
    ELSE "failure"

CheckContent(t) ==
    /\ tr[t].pc = "content"
    /\ tr' = [tr EXCEPT ![t].pc = "done",
                        ![t].result = HybridTrainResult(tr[t].cf_success,
                                                        ContentIsReady)]
    /\ UNCHANGED extVars
    /\ UNCHANGED <<dataUsers, dataProducts, dataReads, cfVars, serveVars,
                   artifact, last_update, nextGen, rd>>

\* The caller (train_model_sync or the background task) takes the result.
TrainReturn(t) ==
    /\ tr[t].pc = "done"
    /\ tr' = [tr EXCEPT ![t] = IdleTrainer]
    /\ UNCHANGED extVars
    /\ UNCHANGED <<dataUsers, dataProducts, dataReads, cfVars, serveVars,
                   artifact, last_update, nextGen, rd>>

\* ---------------------------------- CollaborativeFilteringStrategy.recommend
\* The reader notes the generation of every field it reads.
ReadStart ==
    /\ rd.pc = "idle"
    /\ rd' = [IdleReader EXCEPT !.pc = IF CfIsReady THEN "lookup" ELSE "done"]
    /\ UNCHANGED extVars
    /\ UNCHANGED <<dataUsers, dataProducts, dataReads, cfVars, serveVars,
                   artifact, last_update, nextGen, tr>>

\* user_idx = self.user_to_idx[user_id]
ReadLookup ==
    /\ rd.pc = "lookup"
    /\ rd' = [Observe(rd, user_to_idx.gen) EXCEPT !.pc = "row"]
    /\ UNCHANGED extVars
    /\ UNCHANGED <<dataUsers, dataProducts, dataReads, cfVars, serveVars,
                   artifact, last_update, nextGen, tr>>

\* user_vec = self.user_features[user_idx]
ReadRow ==
    /\ rd.pc = "row"
    /\ rd' = [Observe(rd, user_features.gen) EXCEPT !.pc = "dot"]
    /\ UNCHANGED extVars
    /\ UNCHANGED <<dataUsers, dataProducts, dataReads, cfVars, serveVars,
                   artifact, last_update, nextGen, tr>>

\* scores = user_vec @ self.product_features
ReadDot ==
    /\ rd.pc = "dot"
    /\ rd' = [Observe(rd, product_features.gen) EXCEPT !.pc = "names"]
    /\ UNCHANGED extVars
    /\ UNCHANGED <<dataUsers, dataProducts, dataReads, cfVars, serveVars,
                   artifact, last_update, nextGen, tr>>

\* product_id = self.idx_to_product[idx]
ReadNames ==
    /\ rd.pc = "names"
    /\ rd' = [Observe(rd, idx_to_product.gen) EXCEPT !.pc = "done"]
    /\ UNCHANGED extVars
    /\ UNCHANGED <<dataUsers, dataProducts, dataReads, cfVars, serveVars,
                   artifact, last_update, nextGen, tr>>

ReadReturn ==
    /\ rd.pc = "done"
    /\ rd' = IdleReader
    /\ UNCHANGED extVars
    /\ UNCHANGED <<dataUsers, dataProducts, dataReads, cfVars, serveVars,
                   artifact, last_update, nextGen, tr>>

Next ==
    \/ AddDataUser
    \/ AddDataProduct
    \/ \E t \in Trainers, force \in BOOLEAN : TrainCall(t, force)
    \/ \E t \in Trainers : Prepare(t)
    \/ \E t \in Trainers : MapUsers(t)
    \/ \E t \in Trainers : MapProducts(t)
    \/ \E t \in Trainers : MapInverse(t)
    \/ \E t \in Trainers : BuildMatrix(t)
    \/ \E t \in Trainers : Construct(t)
    \/ \E t \in Trainers : Fit(t)
    \/ \E t \in Trainers : Components(t)
    \/ \E t \in Trainers : Save(t)
    \/ \E t \in Trainers : Stamp(t)
    \/ \E t \in Trainers : CheckContent(t)
    \/ \E t \in Trainers : TrainReturn(t)
    \/ ReadStart
    \/ ReadLookup
    \/ ReadRow
    \/ ReadDot
    \/ ReadNames
    \/ ReadReturn

Spec == Init /\ [][Next]_vars


\* ============================================================ recommend
\* A user id no collection knows, and the request's absent context item
\* (context is None, or current_product_id is None or empty).
Guest == 0
NoItem == 0
ReqUsers == {1, Guest}
Scores == 0..MaxScore
\* Points where a call into a library or the store can raise.
Faults == {"none", "cf", "content", "strategy", "score", "find", "category",
           "popular"}

\* The orders a descending sort by key may return: elements with equal keys
\* come out in any order.
RECURSIVE SortedBy(_, _)
SortedBy(S, key) ==
    IF S = {}
    THEN {<<>>}
    ELSE UNION {{<<x>> \o rest : rest \in SortedBy(S \ {x}, key)} :
                   x \in {y \in S : \A z \in S : key[y] >= key[z]}}
SetMin(S) == CHOOSE x \in S : \A y \in S : x <= y
SetMax(S) == CHOOSE x \in S : \A y \in S : x >= y
\* s[:n]
Take(s, n) == SubSeq(s, 1, Min(n, Len(s)))
Range(s) == {s[i] : i \in 1..Len(s)}

\* BaseRepository.find_by_id: the document, or None (also on any error).
FindById(p, fault) ==
    IF fault = "find" \/ p \notin Products THEN NoDoc ELSE catalog[p]

\* "product and product.get('averageRating', 0) >= MIN_RATING_THRESHOLD"
Quality(p, fault) ==
    /\ FindById(p, fault) # NoDoc
    /\ FindById(p, fault).rating >= MIN_RATING_THRESHOLD

\* sort=[('averageRating', -1), ('totalRatings', -1)]: averageRating
\* decides, totalRatings orders the documents of equal averageRating.
PopularityKey ==
    [p \in Products |->
        IF catalog[p] = NoDoc THEN 0
        ELSE catalog[p].rating * (SetMax(ReviewCounts) + 1)
                + catalog[p].reviews]

\* BaseRepository.find_many's "if limit: query = query.limit(limit)".
Limit(s, limit) == IF limit = 0 THEN s ELSE Take(s, limit)

\* ProductRepository.get_by_category(category_id, limit)
GetByCategory(category_id, limit) ==
    {Limit(s, limit) :
        s \in SortedBy({p \in Products : /\ catalog[p] # NoDoc
                                         /\ catalog[p].cat = category_id},
                       PopularityKey)}

\* get_popular_products with the averageRating filter left out.
GetPopularProductsNoFloor(limit, min_rating) ==
    {Limit(s, limit) :
        s \in SortedBy({p \in Products : catalog[p] # NoDoc}, PopularityKey)}

\* ProductRepository.get_popular_products(limit, min_rating)
GetPopularProducts(limit, min_rating) ==
    {Limit(s, limit) :
        s \in SortedBy({p \in Products : /\ catalog[p] # NoDoc
                                         /\ catalog[p].rating >= min_rating},
                       PopularityKey)}

\* ------------------------------------ CollaborativeFilteringStrategy, serving

\* CollaborativeFilteringStrategy.recommend: every list it can return.
CfRecommend(user_id, n_items, current, fault) ==
    IF ~CfIsReady \/ fault = "cf" \/ user_id \notin user_to_idx.ids
    THEN {<<>>}
    ELSE LET Keep(p) == p # current /\ Quality(p, fault)
         IN  {Take(SelectSeq(top, Keep), n_items) :
                 top \in SortedBy(idx_to_product.ids, cfScore)}

\* get_scores without the test of user_id against user_to_idx.
CfGetScoresAnyUser(user_id, product_ids, fault) ==
    IF ~CfIsReady \/ fault = "cf"
    THEN [p \in product_ids |-> 0]
    ELSE [p \in product_ids |->
             IF p \in product_to_idx.ids THEN cfScore[p] ELSE 0]
\* CollaborativeFilteringStrategy.get_scores
CfGetScores(user_id, product_ids, fault) ==
    IF ~CfIsReady \/ fault = "cf" \/ user_id \notin user_to_idx.ids
    THEN [p \in product_ids |-> 0]
    ELSE [p \in product_ids |->
             IF p \in product_to_idx.ids THEN cfScore[p] ELSE 0]

\* ------------------------------------- ContentBasedFilteringStrategy, serving

\* _recommend_similar
RecommendSimilar(product_id, n_items, fault) ==
    LET Keep(p) == p # product_id /\ Quality(p, fault)
    IN  {Take(SelectSeq(top, Keep), n_items) :
            top \in SortedBy(content.ids, similarity)}

\* _recommend_from_search_history
RecommendFromSearchHistory(user_id, n_items, fault) ==
    IF user_id \notin keywords
    THEN {<<>>}
    ELSE LET Keep(p) == Quality(p, fault)
         IN  {Take(SelectSeq(Take(top, n_items * 2), Keep), n_items) :
                 top \in SortedBy(content.ids, similarity)}

\* ContentBasedFilteringStrategy.recommend
ContentRecommend(user_id, n_items, current, fault) ==
    IF ~ContentIsReady \/ fault = "content"
    THEN {<<>>}
    ELSE IF current # NoItem /\ current \in content.ids
    THEN RecommendSimilar(current, n_items, fault)
    ELSE RecommendFromSearchHistory(user_id, n_items, fault)

\* ContentBasedFilteringStrategy.get_scores
ContentGetScores(user_id, product_ids, current, fault) ==
    IF ~ContentIsReady \/ fault = "content"
    THEN [p \in product_ids |-> 0]
    ELSE IF current # NoItem /\ current \in content.ids
    THEN [p \in product_ids |->
             IF p \in content.ids THEN similarity[p] ELSE 0]
    ELSE IF user_id \notin keywords
    THEN [p \in product_ids |-> 0]
    ELSE [p \in product_ids |->
             IF p \in content.ids THEN similarity[p] ELSE 0]

\* -------------------------------------- HybridRecommendationStrategy, serving
\* cf_weight and content_weight as get_recommendation_service passes them,
\* in tenths; the consensus boost 1.2 and no boost, in tenths.
CF_WEIGHT == 3
CONTENT_WEIGHT == 7
BOOST == 12
NO_BOOST == 10

\* _normalize_scores without the max_val == min_val branch.
NormalizeScoresUnguarded(scores) ==
    IF DOMAIN scores = {}
    THEN [num |-> scores, den |-> 1]
    ELSE LET values == {scores[k] : k \in DOMAIN scores}
         IN  [num |-> [k \in DOMAIN scores |-> scores[k] - SetMin(values)],
              den |-> SetMax(values) - SetMin(values)]

\* _normalize_scores, exactly: the normalised value of k is num[k] / den.
NormalizeScores(scores) ==
    IF DOMAIN scores = {}
    THEN [num |-> scores, den |-> 1]
    ELSE LET values == {scores[k] : k \in DOMAIN scores}
             min_val == SetMin(values)
             max_val == SetMax(values)
         IN  IF max_val = min_val
             THEN [num |-> [k \in DOMAIN scores |->
                               IF scores[k] > 0 THEN 1 ELSE 0],
                   den |-> 1]
             ELSE [num |-> [k \in DOMAIN scores |-> scores[k] - min_val],
                   den |-> max_val - min_val]

\* scores.get(product_id, 0.0) on a normalised dict: the numerator.
Get(norm, p) == IF p \in DOMAIN norm.num THEN norm.num[p] ELSE 0

\* Lines 92-103 of _score_candidates: each strategy's scores for the
\* candidates ({} from a strategy that is not ready), normalised.
CfNormalized(user_id, product_ids, fault) ==
    NormalizeScores(IF CfIsReady
                    THEN CfGetScores(user_id, product_ids, fault)
                    ELSE <<>>)
ContentNormalized(user_id, product_ids, current, fault) ==
    NormalizeScores(IF ContentIsReady
                    THEN ContentGetScores(user_id, product_ids, current, fault)
                    ELSE <<>>)

\* The weighted combination without the consensus boost.
HybridScoreNoBoost(cf, ct, p) ==
    (CF_WEIGHT * Get(cf, p) * ct.den + CONTENT_WEIGHT * Get(ct, p) * cf.den)
    * NO_BOOST

\* Lines 107-121 of _score_candidates: the hybrid score of candidate p, as
\* an integer over the common denominator 100 * cf.den * ct.den.
HybridScore(cf, ct, p) ==
    (CF_WEIGHT * Get(cf, p) * ct.den + CONTENT_WEIGHT * Get(ct, p) * cf.den)
    * (IF Get(cf, p) > 0 /\ Get(ct, p) > 0 THEN BOOST ELSE NO_BOOST)

\* _score_candidates
ScoreCandidates(user_id, product_ids, current, fault) ==
    IF fault = "score"
    THEN [p \in product_ids |-> 0]
    ELSE [p \in product_ids |->
             HybridScore(CfNormalized(user_id, product_ids, fault),
                         ContentNormalized(user_id, product_ids, current,
                                           fault),
                         p)]

\* Lines 67-75 with the scores left out: both candidate lists, one after the
\* other, cut to n_items.
RankConcatenated(cf, ct, scored, n_items) == {Take(cf \o ct, n_items)}

\* Lines 67-75: list(set(cf + content)), scored, sorted by hybrid score
\* descending (equal scores in the order the set happened to yield),
\* cut to n_items.
Rank(cf, ct, scored, n_items) ==
    {Take(s, n_items) : s \in SortedBy(Range(cf) \cup Range(ct), scored)}

\* The body of _fallback_recommendations' try block: every (list, path) it
\* can produce, or the exception it raises.
FallbackBody(n_items, current, fault) ==
    LET product == IF current # NoItem THEN FindById(current, fault)
                   ELSE NoDoc
        Other(p) == p # current
        failed(path) == [exc |-> TRUE, list |-> <<>>, path |-> path]
        popular ==
            IF fault = "popular"
            THEN {failed("popular")}
            ELSE {[exc |-> FALSE, list |-> l, path |-> "popular"] :
                     l \in GetPopularProducts(n_items, MIN_RATING_THRESHOLD)}
    IN  IF current # NoItem /\ product # NoDoc /\ product.cat # NoCategory
        THEN IF fault = "category"
             THEN {failed("category")}
             ELSE UNION {
                    LET recommendations == Take(SelectSeq(cp, Other), n_items)
                    IN  IF recommendations # <<>>
                        THEN {[exc |-> FALSE, list |-> recommendations,
                               path |-> "category"]}
                        ELSE popular :
                    cp \in GetByCategory(Str(product.cat), n_items + 5)}
        ELSE popular

\* _fallback_recommendations with its except clause left out.
FallbackPropagating(n_items, current, fault) ==
    {[list |-> b.list, path |-> b.path, raised |-> b.exc] :
        b \in FallbackBody(n_items, current, fault)}

\* _fallback_recommendations: "except Exception: return []".
FallbackRecommendations(n_items, current, fault) ==
    {IF b.exc
     THEN [list |-> <<>>, path |-> "failed", raised |-> FALSE]
     ELSE [list |-> b.list, path |-> b.path, raised |-> FALSE] :
        b \in FallbackBody(n_items, current, fault)}

\* HybridRecommendationStrategy.recommend: every response the call can give.
HybridRecommend(user_id, n_items, current, fault) ==
    IF fault = "strategy"
    THEN FallbackRecommendations(n_items, current, fault)
    ELSE UNION {
           IF cf = <<>> /\ ct = <<>>
           THEN FallbackRecommendations(n_items, current, fault)
           ELSE {[list |-> l, path |-> "hybrid", raised |-> FALSE] :
                    l \in Rank(cf, ct,
                               ScoreCandidates(user_id,
                                               Range(cf) \cup Range(ct),
                                               current, fault),
                               n_items)} :
           cf \in CfRecommend(user_id, n_items * 3, current, fault),
           ct \in ContentRecommend(user_id, n_items * 3, current, fault)}

\* ------------------------------------------------- one recommend call
\* The strategy as a completed training run over (users, prods) left it.
TrainedCf(g, users, prods) ==
    /\ model = [NMF(g, ComponentCount(users, prods)) EXCEPT !.fit = g,
                                                            !.cols = prods]
    /\ user_features = Matrix(g, users)
    /\ product_features = Matrix(g, prods)
    /\ user_to_idx = [gen |-> g, ids |-> users]
    /\ product_to_idx = [gen |-> g, ids |-> prods]
    /\ idx_to_product = [gen |-> g, ids |-> prods]
    /\ artifact = [tag |-> "Pickle", model |-> model,
                   user_features |-> user_features,
                   product_features |-> product_features,
                   user_to_idx |-> user_to_idx,
                   product_to_idx |-> product_to_idx]
    /\ last_update = g
    /\ dataUsers = users
    /\ dataProducts = prods

\* Product sets a training run can have succeeded on: the component count
\* min(N_COMPONENTS, min(users, products) - 1) has to reach 1.
TrainableSets ==
    {S \in {Products, Products \ {NProducts}} : ComponentCount(Users, S) >= 1}
\* Product sets _build_tfidf_matrix can have indexed: the newest product
\* may have been added to the catalog after the index was built.
IndexedSets == {Products, Products \ {NProducts}}
\* Documents of the catalogs the scored path is explored on: one category,
\* a rating under or over MIN_RATING_THRESHOLD.
PlainDoc(r) == [cat |-> [kind |-> "str", v |-> 1], rating |-> r, reviews |-> 0]
PlainDocs == {PlainDoc(1), PlainDoc(3)}
\* The first product is rated under or over the threshold, the newest one
\* may have been deleted since, the others are over the threshold.
PlainCatalogs ==
    {c \in [Products -> PlainDocs \cup {NoDoc}] :
        /\ c[1] # NoDoc
        /\ \A p \in Products \ {1} : c[p] # PlainDoc(1)
        /\ \A p \in Products \ {NProducts} : c[p] # NoDoc}
\* Score rows over the indexed products S, 0 elsewhere: all equal (every
\* pair ties), rising with the product id, falling with it.
ScoreRows(S) ==
    LET Row(f) == [p \in Products |-> IF p \in S THEN f[p] ELSE 0]
    IN  {Row([p \in Products |-> c]) : c \in Scores}
        \cup {Row([p \in Products |-> p % (MaxScore + 1)]),
              Row([p \in Products |-> (NProducts - p) % (MaxScore + 1)])}
\* Product ids carry no meaning of their own (ties are broken either way),
\* so a catalog is taken up to renaming: documents in rising DocRank.
DocRank(doc) ==
    IF doc = NoDoc THEN 0
    ELSE 1 + doc.reviews + 10 * doc.rating + 100 * doc.cat.v
Catalogs ==
    {c \in [Products -> Docs \cup {NoDoc}] :
        \A p \in Products \ {NProducts} : DocRank(c[p]) <= DocRank(c[p + 1])}

\* No strategy ready, any catalog.
InitDegraded ==
    /\ FreshInit
    /\ content = NoContent
    /\ catalog \in Catalogs
    /\ keywords = {}
    /\ cfScore = [p \in Products |-> 0]
    /\ similarity = [p \in Products |-> 0]

\* At least one strategy ready. cfScore is user 1's row of
\* user_features @ product_features; similarity is the cosine row of the
\* request's query (the current product, or the user's search keywords).
InitScored ==
    /\ catalog \in PlainCatalogs
    /\ \/ FreshInit /\ cfScore = [p \in Products |-> 0]
       \/ \E prods \in TrainableSets :
             /\ TrainedCf(1, Users, prods)
             /\ cfScore \in ScoreRows(prods)
    /\ \/ /\ content = NoContent
          /\ keywords = {}
          /\ similarity = [p \in Products |-> 0]
       \/ \E ids \in IndexedSets :
             /\ content = [ready |-> TRUE, ids |-> ids]
             /\ keywords \in {{}, ReqUsers}
             /\ similarity \in ScoreRows(ids)
    /\ CfIsReady \/ ContentIsReady

\* No request yet, no training run and no reader under way.
InitIdle ==
    /\ req = None
    /\ resp = None
    /\ dataReads = 0
    /\ nextGen = 2
    /\ tr = [t \in Trainers |-> IdleTrainer]
    /\ rd = IdleReader
    /\ InitExt

InitRecommend == (InitDegraded \/ InitScored) /\ InitIdle
InitFallback == InitDegraded /\ InitIdle

\* Whether the call reaches _fallback_recommendations: no candidate from
\* either strategy, or an exception in recommend's own try block.
ReachesFallback(user_id, n_items, current, fault) ==
    \/ fault = "strategy"
    \/ /\ <<>> \in CfRecommend(user_id, n_items * 3, current, fault)
       /\ <<>> \in ContentRecommend(user_id, n_items * 3, current, fault)

\* Whether the call can reach the point the fault is injected at.
FaultCanOccur(user_id, n_items, current, fault) ==
    CASE fault = "none" -> TRUE
      [] fault = "cf" -> CfIsReady /\ user_id \in user_to_idx.ids
      [] fault = "content" -> ContentIsReady
      [] fault = "strategy" -> CfIsReady \/ ContentIsReady
      [] fault = "score" ->
            ~ReachesFallback(user_id, n_items, current, "none")
      [] fault = "find" ->
            \/ current # NoItem
            \/ n_items > 0 /\ CfIsReady /\ user_id \in user_to_idx.ids
            \/ n_items > 0 /\ ContentIsReady /\ user_id \in keywords
      [] fault = "category" ->
            /\ ReachesFallback(user_id, n_items, current, "none")
            /\ current # NoItem
            /\ catalog[current] # NoDoc
            /\ catalog[current].cat # NoCategory
      [] OTHER -> ReachesFallback(user_id, n_items, current, "none")

\* One call of HybridRecommendationStrategy.recommend. The call changes
\* nothing a later call reads, so one call per behaviour covers them all;
\* with no strategy ready no line of the call reads user_id.
Recommend(user_id, n_items, current, fault) ==
    /\ req = None
    /\ FaultCanOccur(user_id, n_items, current, fault)
    /\ CfIsReady \/ ContentIsReady \/ user_id = Guest
    /\ req' = [user |-> user_id, n |-> n_items, current |-> current,
               fault |-> fault]
    /\ resp' \in HybridRecommend(user_id, n_items, current, fault)
    /\ UNCHANGED extVars
    /\ UNCHANGED <<dataUsers, dataProducts, dataReads, cfVars, catalog,
                   keywords, content, cfScore, similarity, artifact,
                   last_update, nextGen, tr, rd>>

NextRecommend ==
    \E user_id \in ReqUsers, n_items \in 0..MaxN,
       current \in {NoItem} \cup Products, fault \in Faults :
        Recommend(user_id, n_items, current, fault)

\* recommend in every readiness state.
SpecRecommend == InitRecommend /\ [][NextRecommend]_vars
\* recommend with no strategy ready: every call ends in the fallback.
SpecFallback == InitFallback /\ [][NextRecommend]_vars

\* --------------------------------------------------- one get_scores call
\* Raw scores the strategies hand to _score_candidates: non-negative (NMF
\* factors and TF-IDF cosines are), on grids fine enough for the weighted
\* sums of two candidates to balance.
CfRaws == 0..MaxRawCf
ContentRaws == 0..MaxRawContent

\* The collaborative strategy trained on every product, the content index
\* not built: the content side hands over the empty dict.
InitNormalize ==
    /\ TrainedCf(1, Users, Products)
    /\ cfScore \in [Products -> CfRaws]
    /\ content = NoContent
    /\ catalog = DefaultCatalog
    /\ keywords = {}
    /\ similarity = [p \in Products |-> 0]
    /\ InitIdle

\* Both strategies ready over every product, the user has search keywords.
InitScore ==
    /\ TrainedCf(1, Users, Products)
    /\ cfScore \in [Products -> CfRaws]
    /\ content = [ready |-> TRUE, ids |-> Products]
    /\ catalog = DefaultCatalog
    /\ keywords = ReqUsers
    /\ similarity \in [Products -> ContentRaws]
    /\ InitIdle

\* One call of HybridRecommendationStrategy.get_scores (_score_candidates)
\* for user 1, recording the raw and the normalised scores on the way.
GetScores(product_ids) ==
    /\ req = None
    /\ req' = [user |-> 1, ids |-> product_ids, current |-> NoItem,
               fault |-> "none"]
    /\ resp' = [cf_raw |-> CfGetScores(1, product_ids, "none"),
                cf |-> CfNormalized(1, product_ids, "none"),
                content |-> ContentNormalized(1, product_ids, NoItem, "none"),
                hybrid |-> ScoreCandidates(1, product_ids, NoItem, "none")]
    /\ UNCHANGED extVars
    /\ UNCHANGED <<dataUsers, dataProducts, dataReads, cfVars, catalog,
                   keywords, content, cfScore, similarity, artifact,
                   last_update, nextGen, tr, rd>>

NextScore == \E product_ids \in SUBSET Products \ {{}} : GetScores(product_ids)

\* _normalize_scores on every bounded score map.
SpecNormalize == InitNormalize /\ [][NextScore]_vars
\* _score_candidates on every bounded pair of score maps.
SpecScore == InitScore /\ [][NextScore]_vars

\* ------------------------------------------------- BusinessRulesEngine
MAX_PER_CATEGORY == 2
IndexOf(s, p) == CHOOSE i \in 1..Len(s) : s[i] = p
\* list.sort(key=..., reverse=True): descending, equal keys in input order.
StableSortDescending(s, key) ==
    CHOOSE r \in SortedBy(Range(s),
                          [p \in Range(s) |->
                              key[p] * (Len(s) + 1) + (Len(s) - IndexOf(s, p))]) :
        TRUE
\* apply_rules' score of one product, in thousandths, for a context that
\* carries no viewed_category, price_range or favorite_categories (the
\* request context holds current_product_id only): rules 1, 2 and 6.
RuleScore(doc) ==
    (IF doc.rating * 10 >= 45 THEN 14
     ELSE IF doc.rating * 10 >= 40 THEN 12 ELSE 10)
    * (IF doc.reviews >= 10 THEN 12 ELSE IF doc.reviews >= 5 THEN 11 ELSE 10)
    * (IF doc.rating * 10 < 35 /\ doc.reviews >= 3 THEN 5 ELSE 10)
\* apply_rules(recommendations, all_products, context)
ApplyRules(recommendations) ==
    LET known == SelectSeq(recommendations, LAMBDA p : catalog[p] # NoDoc)
    IN  IF known = <<>> THEN <<>>
        ELSE StableSortDescending(known,
                                  [p \in Range(known) |-> RuleScore(catalog[p])])
\* str(product.get('productCategory', 'unknown'))
CategoryText(doc) ==
    IF doc.cat = NoCategory THEN [kind |-> "str", v |-> 0] ELSE Str(doc.cat)
RECURSIVE DiversifyFrom(_, _, _, _)
DiversifyFrom(recommendations, i, diversified, max_per_category) ==
    IF i > Len(recommendations) THEN diversified
    ELSE LET p == recommendations[i]
             same == {j \in 1..Len(diversified) :
                        CategoryText(catalog[diversified[j]])
                          = CategoryText(catalog[p])}
         IN  DiversifyFrom(recommendations, i + 1,
                 IF catalog[p] # NoDoc /\ Cardinality(same) < max_per_category
                 THEN Append(diversified, p) ELSE diversified,
                 max_per_category)
\* diversify_recommendations(recommendations, all_products, max_per_category)
DiversifyRecommendations(recommendations, max_per_category) ==
    LET diversified == DiversifyFrom(recommendations, 1, <<>>,
                                     max_per_category)
        remaining == SelectSeq(recommendations,
                               LAMBDA p : p \notin Range(diversified))
    IN  IF Len(diversified) < Len(recommendations) \div 2
        THEN diversified
               \o Take(remaining, Len(recommendations) - Len(diversified))
        ELSE diversified

\* ------------------------------- one recommend call, catalog rated 3 or 5
RatedDocs == {PlainDoc(3), PlainDoc(5)}
\* The collaborative strategy trained on everything, any score row for
\* user 1; the content index built, nobody has searched.
InitRerank ==
    /\ TrainedCf(1, Users, Products)
    /\ cfScore \in [Products -> CfRaws]
    /\ content = [ready |-> TRUE, ids |-> Products]
    /\ catalog \in [Products -> RatedDocs]
    /\ keywords = {}
    /\ similarity = [p \in Products |-> 0]
    /\ InitIdle

SpecRerank == InitRerank /\ [][NextRecommend]_vars

\* ---------------------------------------------------- one evaluate call
EVAL_N_ITEMS == 10
\* An order document: its userId, the products of its orderItems, and the
\* synthetic flag.
Orders == [user : ReqUsers, items : SUBSET Products, synthetic : BOOLEAN]
\* Fractions are kept exact: numerator over denominator.
Zero == [num |-> 0, den |-> 1]
RECURSIVE SumOver(_, _)
\* The sum of the fractions of fs over the common denominator den.
SumOver(fs, den) ==
    IF fs = <<>> THEN 0
    ELSE Head(fs).num * (den \div Head(fs).den) + SumOver(Tail(fs), den)
RECURSIVE CommonDen(_)
CommonDen(fs) == IF fs = <<>> THEN 1 ELSE Head(fs).den * CommonDen(Tail(fs))
\* np.mean(fs) if fs else 0
MeanOrZero(fs) ==
    IF fs = <<>> THEN Zero
    ELSE [num |-> SumOver(fs, CommonDen(fs)), den |-> Len(fs) * CommonDen(fs)]
\* 2 * (p * r) / (p + r) if (p + r) > 0 else 0
F1(p, r) ==
    IF p.num * r.den + r.num * p.den > 0
    THEN [num |-> 2 * p.num * r.num, den |-> p.num * r.den + r.num * p.den]
    ELSE Zero
\* The orders evaluate iterates over without the synthetic filter.
RealTestOrdersUnfiltered(test_orders) == test_orders
\* real_test_orders: the orders not flagged synthetic, or all of them when
\* every one is flagged.
RealTestOrders(test_orders) ==
    LET real == SelectSeq(test_orders, LAMBDA o : ~o.synthetic)
    IN  IF real = <<>> THEN test_orders ELSE real
\* The orders that pass the three `continue`s of the loop, given the list
\* recommend returns for each user.
Evaluated(orders, recommended) ==
    SelectSeq(orders, LAMBDA o : /\ o.user \in user_to_idx.ids
                                 /\ o.items # {}
                                 /\ recommended[o.user] # <<>>)
Precisions(orders, recommended) ==
    [i \in 1..Len(orders) |->
        [num |-> Cardinality(orders[i].items
                               \cap Range(recommended[orders[i].user])),
         den |-> Len(recommended[orders[i].user])]]
Recalls(orders, recommended) ==
    [i \in 1..Len(orders) |->
        [num |-> Cardinality(orders[i].items
                               \cap Range(recommended[orders[i].user])),
         den |-> Cardinality(orders[i].items)]]
\* CollaborativeFilteringStrategy.evaluate on the test orders the repository
\* returned: the metrics, with the lists self.recommend returned and the
\* orders that contributed. A repository read that raises ends in the except
\* branch.
CfEvaluateOn(test_orders, readOk) ==
    IF ~CfIsReady \/ ~readOk
    THEN {[precision |-> Zero, recall |-> Zero, f1 |-> Zero,
           recommended |-> [u \in ReqUsers |-> <<>>],
           precisions |-> <<>>, recalls |-> <<>>, evaluated |-> <<>>]}
    ELSE {LET recommended == [u \in ReqUsers |->
                                 IF u = 1 THEN rec
                                 ELSE CHOOSE l \in CfRecommend(
                                          u, EVAL_N_ITEMS, NoItem, "none") : TRUE]
              orders == Evaluated(RealTestOrders(test_orders), recommended)
              precisions == Precisions(orders, recommended)
              recalls == Recalls(orders, recommended)
          IN  [precision |-> MeanOrZero(precisions),
               recall |-> MeanOrZero(recalls),
               f1 |-> F1(MeanOrZero(precisions), MeanOrZero(recalls)),
               recommended |-> recommended,
               precisions |-> precisions, recalls |-> recalls,
               evaluated |-> orders] :
          rec \in CfRecommend(1, EVAL_N_ITEMS, NoItem, "none")}
\* CollaborativeFilteringStrategy.evaluate
CfEvaluate(readOk) == CfEvaluateOn(testOrders, readOk)
\* HybridRecommendationStrategy.evaluate, as GET /model/evaluate calls it
\* once service.is_ready() holds.
Evaluate(readOk) ==
    /\ req = None
    /\ CfIsReady \/ ContentIsReady
    /\ req' = [op |-> "evaluate", readOk |-> readOk]
    /\ resp' \in CfEvaluate(readOk)
    /\ UNCHANGED extVars
    /\ UNCHANGED <<dataUsers, dataProducts, dataReads, cfVars, catalog,
                   keywords, content, cfScore, similarity, artifact,
                   last_update, nextGen, tr, rd>>

NextEvaluate == \E readOk \in BOOLEAN : Evaluate(readOk)

\* The newest fifth of the orders collection: up to MaxTestOrders orders.
TestOrderLists == UNION {[1..n -> Orders] : n \in 0..MaxTestOrders}
\* Catalogs whose first k products are rated under MIN_RATING_THRESHOLD.
UnderRatedPrefixes ==
    {[p \in Products |-> IF p <= k THEN PlainDoc(1) ELSE PlainDoc(3)] :
        k \in 0..NProducts}
\* Some products rated under MIN_RATING_THRESHOLD, the others over; the
\* collaborative strategy trained or not; the content index built, the
\* users with or without search keywords.
InitEvaluate ==
    /\ \/ FreshInit /\ cfScore = [p \in Products |-> 0]
       \/ TrainedCf(1, Users, Products) /\ cfScore \in ScoreRows(Products)
    /\ content = [ready |-> TRUE, ids |-> Products]
    /\ catalog \in UnderRatedPrefixes
    /\ \/ keywords = {} /\ similarity = [p \in Products |-> 0]
       \/ keywords = ReqUsers /\ similarity \in ScoreRows(Products)
    /\ req = None
    /\ resp = None
    /\ dataReads = 0
    /\ nextGen = 2
    /\ tr = [t \in Trainers |-> IdleTrainer]
    /\ rd = IdleReader
    /\ searched = [u \in Users |-> {}]
    /\ testOrders \in TestOrderLists
    /\ hybrid_service = 1
    /\ instances = {1}
    /\ th = [t \in RequestThreads |-> IdleThread]
    /\ cache = <<>>
    /\ origin = <<>>
    /\ calls = 0

SpecEvaluate == InitEvaluate /\ [][NextEvaluate]_vars

\* ------------------------------------------ get_recommendation_service
\* The dependency is a plain function, so each request runs it on a worker
\* thread; the reads of the database and of the model file inside the
\* constructors let the threads interleave between the lines below.
ServiceUnchanged ==
    UNCHANGED <<dataUsers, dataProducts, dataReads, cfVars, serveVars,
                artifact, last_update, nextGen, tr, rd, searched, testOrders,
                cache, origin, calls>>

\* Line 77-82: the test of the global, then get_db().
CheckService(t) ==
    /\ th[t].pc = "idle"
    /\ \E dbOk \in BOOLEAN :
         th' = [th EXCEPT ![t].pc =
                  IF hybrid_service # NoService THEN "return"
                  ELSE IF dbOk THEN "strategies" ELSE "raised"]
    /\ UNCHANGED <<hybrid_service, instances>>
    /\ ServiceUnchanged

\* Lines 85-105: the repositories and the two strategies are constructed
\* (the model file is loaded, the TF-IDF index is built).
BuildStrategies(t) ==
    /\ th[t].pc = "strategies"
    /\ th' = [th EXCEPT ![t].pc = "assign"]
    /\ UNCHANGED <<hybrid_service, instances>>
    /\ ServiceUnchanged

\* Lines 108-115: a HybridRecommendationStrategy is created around them and
\* stored in the global.
AssignService(t) ==
    /\ th[t].pc = "assign"
    /\ instances' = instances \cup {Cardinality(instances) + 1}
    /\ hybrid_service' = Cardinality(instances) + 1
    /\ th' = [th EXCEPT ![t].pc = "return"]
    /\ ServiceUnchanged

\* Line 124: return _hybrid_service; the request operates on what it got.
ReturnService(t) ==
    /\ th[t].pc = "return"
    /\ th' = [th EXCEPT ![t] = [pc |-> "done", service |-> hybrid_service]]
    /\ UNCHANGED <<hybrid_service, instances>>
    /\ ServiceUnchanged

NextService ==
    \/ \E t \in RequestThreads : CheckService(t)
    \/ \E t \in RequestThreads : BuildStrategies(t)
    \/ \E t \in RequestThreads : AssignService(t)
    \/ \E t \in RequestThreads : ReturnService(t)

\* A process that has served no request yet.
InitService ==
    /\ FreshInit
    /\ content = NoContent
    /\ catalog = [p \in Products |-> NoDoc]
    /\ keywords = {}
    /\ cfScore = [p \in Products |-> 0]
    /\ similarity = [p \in Products |-> 0]
    /\ req = None
    /\ resp = None
    /\ dataReads = 0
    /\ nextGen = 2
    /\ tr = [t \in Trainers |-> IdleTrainer]
    /\ rd = IdleReader
    /\ searched = [u \in Users |-> {}]
    /\ testOrders = <<>>
    /\ hybrid_service = NoService
    /\ instances = {}
    /\ th = [t \in RequestThreads |-> IdleThread]
    /\ cache = <<>>
    /\ origin = <<>>
    /\ calls = 0

SpecService == InitService /\ [][NextService]_vars

\* ------------------------------------------------------ POST /recommend
\* Request ids are strings, written as sequences of pieces: "u" is the id
\* of user 1, "p" the id of product 1, ":" a colon, "none" the text none.
\* The schema takes any string for user_id and product_id.
UserIds == {<<"u">>, <<"u", ":", "p">>}
\* <<>> is an absent (or empty) product_id.
ProductIds == {<<>>, <<"p">>, <<"none">>, <<"p", ":", "none">>}
\* The user and the product a request id names: a string that is no known
\* id is an unknown user, and as current_product_id it matches no product,
\* which every branch of recommend treats as it treats no context.
ResolveUser(user_id) == IF user_id = <<"u">> THEN 1 ELSE Guest
ResolveProduct(product_id) == IF product_id = <<"p">> THEN 1 ELSE NoItem
\* f"hybrid_rec:{request.user_id}:{request.product_id or 'none'}:{request.n_items}"
CacheKey(user_id, product_id, n_items) ==
    <<"hybrid_rec", ":">> \o user_id \o <<":">>
      \o (IF product_id = <<>> THEN <<"none">> ELSE product_id)
      \o <<":", n_items>>
Put(f, k, v) == [x \in DOMAIN f \cup {k} |-> IF x = k THEN v ELSE f[x]]
Drop(f, k) == [x \in DOMAIN f \ {k} |-> f[x]]

\* get_recommendations: a cache hit, or service.recommend and setex; an
\* empty list is a 404 and is not cached. redis is the client get_redis
\* returned (None when the connection failed).
GetRecommendations(user_id, product_id, n_items, redis) ==
    LET key == CacheKey(user_id, product_id, n_items)
        request == [user |-> user_id, product |-> product_id, n |-> n_items]
    IN  /\ calls < MaxCalls
        /\ calls' = calls + 1
        /\ req' = request
        /\ IF redis /\ key \in DOMAIN cache
           THEN /\ resp' = [list |-> cache[key], source |-> "cache",
                            status |-> 200, origin |-> origin[key]]
                /\ UNCHANGED <<cache, origin>>
           ELSE \E r \in HybridRecommend(ResolveUser(user_id), n_items,
                                         ResolveProduct(product_id), "none") :
                   /\ resp' = [list |-> r.list, source |-> "hybrid",
                               status |-> IF r.list = <<>> THEN 404 ELSE 200,
                               origin |-> request]
                   /\ IF redis /\ r.list # <<>>
                      THEN /\ cache' = Put(cache, key, r.list)
                           /\ origin' = Put(origin, key, request)
                      ELSE UNCHANGED <<cache, origin>>
        /\ UNCHANGED <<dataUsers, dataProducts, dataReads, cfVars, catalog,
                       keywords, content, cfScore, similarity, artifact,
                       last_update, nextGen, tr, rd, searched, testOrders,
                       hybrid_service, instances, th>>

\* setex(key, 3600, ...): the entry is gone an hour after it was written.
Expire(key) ==
    /\ key \in DOMAIN cache
    /\ cache' = Drop(cache, key)
    /\ origin' = Drop(origin, key)
    /\ UNCHANGED <<dataUsers, dataProducts, dataReads, cfVars, serveVars,
                   artifact, last_update, nextGen, tr, rd, searched,
                   testOrders, hybrid_service, instances, th, calls>>

\* Score rows without ties: rising or falling with the product id.
ModelRows ==
    {[p \in Products |-> p], [p \in Products |-> NProducts + 1 - p]}
\* A completed train(force_retrain=True): new factors, so another score row
\* for user 1; the cache is not told.
Retrain ==
    /\ nextGen <= MaxGen
    /\ nextGen' = nextGen + 1
    /\ last_update' = nextGen
    /\ cfScore' \in ModelRows \ {cfScore}
    /\ UNCHANGED <<dataUsers, dataProducts, dataReads, cfVars, catalog,
                   keywords, content, similarity, req, resp, artifact,
                   tr, rd>>
    /\ UNCHANGED extVars

NextCache ==
    \/ \E user_id \in UserIds, product_id \in ProductIds,
          n_items \in 1..MaxN, redis \in BOOLEAN :
           GetRecommendations(user_id, product_id, n_items, redis)
    \/ \E key \in DOMAIN cache : Expire(key)
    \/ Retrain

\* Product 1 the most popular, the collaborative model trained with a score
\* row that puts it last, no content index, an empty cache.
InitCache ==
    /\ TrainedCf(1, Users, Products)
    /\ cfScore = [p \in Products |-> p]
    /\ content = NoContent
    /\ catalog = [p \in Products |->
                    [cat |-> [kind |-> "str", v |-> 1], rating |-> 3,
                     reviews |-> IF p = 1 THEN 1 ELSE 0]]
    /\ keywords = {}
    /\ similarity = [p \in Products |-> 0]
    /\ InitIdle

SpecCache == InitCache /\ [][NextCache]_vars

\* ------------------------------------------- one aggregation of the store
\* A store holding any orders, ratings and search history; a strategy that
\* loaded no model; the trainer about to be called.  A search with product
\* results has a query, so whoever has results has keywords.
InitAggregate ==
    /\ model = None
    /\ user_features = None
    /\ product_features = None
    /\ user_to_idx = EmptyMap
    /\ product_to_idx = EmptyMap
    /\ idx_to_product = EmptyMap
    /\ artifact = None
    /\ last_update = 0
    /\ dataUsers \in SUBSET Users
    /\ dataProducts \in SUBSET Products
    /\ keywords \in SUBSET Users
    /\ searched \in [Users -> SUBSET Products]
    /\ \A u \in Users : searched[u] # {} => u \in keywords
    /\ testOrders = <<>>
    /\ hybrid_service = 1
    /\ instances = {1}
    /\ th = [t \in RequestThreads |-> IdleThread]
    /\ cache = <<>>
    /\ origin = <<>>
    /\ calls = 0
    /\ content = [ready |-> TRUE, ids |-> Products]
    /\ catalog = DefaultCatalog
    /\ cfScore = [p \in Products |-> 0]
    /\ similarity = [p \in Products |-> 0]
    /\ req = None
    /\ resp = None
    /\ dataReads = 0
    /\ nextGen = 2
    /\ tr = [t \in Trainers |-> IdleTrainer]
    /\ rd = IdleReader

\* train(force_retrain) up to the end of _prepare_interaction_matrix.
NextAggregate ==
    \/ \E t \in Trainers, force \in BOOLEAN : TrainCall(t, force)
    \/ \E t \in Trainers : Prepare(t)
    \/ \E t \in Trainers : MapUsers(t)
    \/ \E t \in Trainers : MapProducts(t)
    \/ \E t \in Trainers : MapInverse(t)
    \/ \E t \in Trainers : BuildMatrix(t)

SpecAggregate == InitAggregate /\ [][NextAggregate]_vars

\* ------------------------------------------------ two training requests
\* The threads that run HybridRecommendationStrategy.train: the thread pool
\* worker of a POST /model/update background task (add_task with a plain
\* function) and the event-loop thread inside POST /model/train.
TrainThreads == {"background", "event_loop"}

InitOverlap ==
    /\ FreshInit \/ LoadedInit
    /\ content = [ready |-> TRUE, ids |-> Products]
    /\ catalog = DefaultCatalog
    /\ keywords = {}
    /\ cfScore = [p \in Products |-> 0]
    /\ similarity = [p \in Products |-> 0]
    /\ req = None
    /\ resp = None
    /\ dataReads = 0
    /\ nextGen = 2
    /\ tr = [t \in TrainThreads |-> IdleTrainer]
    /\ rd = IdleReader
    /\ InitExt

\* Both endpoints call service.train(force_retrain=True); neither takes a
\* lock, and the event loop accepts POST /model/train while the worker runs.
NextOverlap ==
    \/ AddDataUser
    \/ AddDataProduct
    \/ \E t \in TrainThreads : TrainCall(t, TRUE)
    \/ \E t \in TrainThreads : Prepare(t)
    \/ \E t \in TrainThreads : MapUsers(t)
    \/ \E t \in TrainThreads : MapProducts(t)
    \/ \E t \in TrainThreads : MapInverse(t)
    \/ \E t \in TrainThreads : BuildMatrix(t)
    \/ \E t \in TrainThreads : Construct(t)
    \/ \E t \in TrainThreads : Fit(t)
    \/ \E t \in TrainThreads : Components(t)
    \/ \E t \in TrainThreads : Save(t)
    \/ \E t \in TrainThreads : Stamp(t)
    \/ \E t \in TrainThreads : CheckContent(t)
    \/ \E t \in TrainThreads : TrainReturn(t)

SpecOverlap == InitOverlap /\ [][NextOverlap]_vars

\* ------------------------------------------- training on any bounded store
\* A process that loaded a pickle or found none, over a store whose orders and
\* ratings are any bounded sets (documents may have been deleted since the
\* pickle was written), the trainer about to be called.
InitRefuse ==
    /\ \/ /\ model = None
          /\ user_features = None
          /\ product_features = None
          /\ user_to_idx = EmptyMap
          /\ product_to_idx = EmptyMap
          /\ idx_to_product = EmptyMap
          /\ artifact = None
          /\ last_update = 0
       \/ /\ model = [NMF(1, 1) EXCEPT !.fit = 1, !.cols = {1, 2}]
          /\ user_features = Matrix(1, {1, 2})
          /\ product_features = Matrix(1, {1, 2})
          /\ user_to_idx = [gen |-> 1, ids |-> {1, 2}]
          /\ product_to_idx = [gen |-> 1, ids |-> {1, 2}]
          /\ idx_to_product = [gen |-> 1, ids |-> {1, 2}]
          /\ artifact = Snapshot
          /\ last_update = 1
    /\ dataUsers \in SUBSET Users
    /\ dataProducts \in SUBSET Products
    /\ \/ content = NoContent /\ catalog = [p \in Products |-> NoDoc]
       \/ content = [ready |-> TRUE, ids |-> Products] /\ catalog = DefaultCatalog
    /\ keywords = {}
    /\ cfScore = [p \in Products |-> 0]
    /\ similarity = [p \in Products |-> 0]
    /\ req = None
    /\ resp = None
    /\ dataReads = 0
    /\ nextGen = 2
    /\ tr = [t \in Trainers |-> IdleTrainer]
    /\ rd = IdleReader
    /\ InitExt

\* HybridRecommendationStrategy.train, one call after another.
NextRefuse ==
    \/ \E t \in Trainers, force \in BOOLEAN : TrainCall(t, force)
    \/ \E t \in Trainers : Prepare(t)
    \/ \E t \in Trainers : MapUsers(t)
    \/ \E t \in Trainers : MapProducts(t)
    \/ \E t \in Trainers : MapInverse(t)
    \/ \E t \in Trainers : BuildMatrix(t)
    \/ \E t \in Trainers : Construct(t)
    \/ \E t \in Trainers : Fit(t)
    \/ \E t \in Trainers : Components(t)
    \/ \E t \in Trainers : Save(t)
    \/ \E t \in Trainers : Stamp(t)
    \/ \E t \in Trainers : CheckContent(t)
    \/ \E t \in Trainers : TrainReturn(t)

SpecRefuse == InitRefuse /\ [][NextRefuse]_vars

\* ------------------------------------------- _prepare_interaction_matrix
\* Weights in tenths: quantity * 2.0, rating * 0.6 + comment_score * 0.4,
\* 0.5 per searched product; the scale the matrix is normalised to.
PURCHASE_WEIGHT == 20
RATING_WEIGHT == 6
SENTIMENT_WEIGHT == 4
SEARCH_WEIGHT == 5
SCALE == 5

\* An order line with its order's userId; a rating with the numbers of
\* positive and negative words its comment contains.
OrderLines ==
    [user : Users, product : 1..NDataProducts, quantity : 1..MaxQuantity]
\* One star: the rating value a negative comment can outweigh.
RatingValues == {1}
RatingDocs ==
    [user : Users, product : 1..NDataProducts, rating : RatingValues,
     positive : 0..1, negative : 0..MaxNegative]
OrderLineLists == UNION {[1..n -> OrderLines] : n \in 0..MaxOrderLines}
RatingLists == UNION {[1..n -> RatingDocs] : n \in 0..MaxRatings}

\* _analyze_sentiment
AnalyzeSentiment(rating) == rating.positive - rating.negative

\* rating_value * 0.6 + comment_score * 0.4, added as it is.
RatingWeightUnclipped(rating) ==
    RATING_WEIGHT * rating.rating + SENTIMENT_WEIGHT * AnalyzeSentiment(rating)
\* max(weight, 0)
RatingWeight(rating) ==
    LET weight == RATING_WEIGHT * rating.rating
                    + SENTIMENT_WEIGHT * AnalyzeSentiment(rating)
    IN  IF weight > 0 THEN weight ELSE 0

\* all_users and all_products
AllUsers(orders, ratings) ==
    {orders[i].user : i \in DOMAIN orders}
      \cup {ratings[i].user : i \in DOMAIN ratings}
AllProducts(orders, ratings) ==
    {orders[i].product : i \in DOMAIN orders}
      \cup {ratings[i].product : i \in DOMAIN ratings}

\* The += loops over the order lines and over the ratings, from record i on.
RECURSIVE AddOrders(_, _, _)
AddOrders(interactions, orders, i) ==
    IF i > Len(orders) THEN interactions
    ELSE LET cell == <<orders[i].user, orders[i].product>>
         IN  AddOrders(IF cell \in DOMAIN interactions
                       THEN [interactions EXCEPT
                               ![cell] = @ + orders[i].quantity * PURCHASE_WEIGHT]
                       ELSE interactions,
                       orders, i + 1)
RECURSIVE AddRatings(_, _, _)
AddRatings(interactions, ratings, i) ==
    IF i > Len(ratings) THEN interactions
    ELSE LET cell == <<ratings[i].user, ratings[i].product>>
         IN  AddRatings(IF cell \in DOMAIN interactions
                        THEN [interactions EXCEPT
                                ![cell] = @ + RatingWeight(ratings[i])]
                        ELSE interactions,
                        ratings, i + 1)
\* The search history loop: users of all_users, products of product_to_idx;
\* searched[u] is what get_searched_product_ids(u) returns.
AddSearches(interactions) ==
    [cell \in DOMAIN interactions |->
        interactions[cell]
          + IF cell[2] \in searched[cell[1]] THEN SEARCH_WEIGHT ELSE 0]

\* "Normalize to 0-5 scale": the value of a cell is num[cell] / den.
Normalize(interactions) ==
    LET max_val == SetMax({interactions[cell] : cell \in DOMAIN interactions})
    IN  IF max_val > 0
        THEN [num |-> [cell \in DOMAIN interactions |->
                          interactions[cell] * SCALE],
              den |-> max_val]
        ELSE [num |-> interactions, den |-> 10]

\* The matrix _prepare_interaction_matrix returns for the documents read.
InteractionMatrix(orders, ratings) ==
    LET zeros == [cell \in AllUsers(orders, ratings)
                             \X AllProducts(orders, ratings) |-> 0]
    IN  Normalize(AddSearches(AddRatings(AddOrders(zeros, orders, 1),
                                         ratings, 1)))

\* One call of _prepare_interaction_matrix over the documents the order and
\* rating repositories return: None without users or products, else the
\* three index maps are assigned and the matrix is returned.
PrepareInteractionMatrix(orders, ratings) ==
    /\ req = None
    /\ req' = [op |-> "prepare", orders |-> orders, ratings |-> ratings]
    /\ dataReads' = dataReads + 1
    /\ IF AllUsers(orders, ratings) = {} \/ AllProducts(orders, ratings) = {}
       THEN /\ resp' = [op |-> "prepare", interactions |-> None]
            /\ UNCHANGED <<user_to_idx, product_to_idx, idx_to_product>>
       ELSE /\ user_to_idx' = [gen |-> nextGen,
                               ids |-> AllUsers(orders, ratings)]
            /\ product_to_idx' = [gen |-> nextGen,
                                  ids |-> AllProducts(orders, ratings)]
            /\ idx_to_product' = product_to_idx'
            /\ resp' = [op |-> "prepare",
                        interactions |-> InteractionMatrix(orders, ratings)]
    /\ UNCHANGED extVars
    /\ UNCHANGED <<dataUsers, dataProducts, model, user_features,
                   product_features, catalog, keywords, content, cfScore,
                   similarity, artifact, last_update, nextGen, tr, rd>>

NextMatrix ==
    \E orders \in OrderLineLists, ratings \in RatingLists :
        PrepareInteractionMatrix(orders, ratings)

\* A process without a model, any search history.
InitMatrix ==
    /\ FreshInit
    /\ content = [ready |-> TRUE, ids |-> Products]
    /\ catalog = DefaultCatalog
    /\ keywords = {}
    /\ cfScore = [p \in Products |-> 0]
    /\ similarity = [p \in Products |-> 0]
    /\ req = None
    /\ resp = None
    /\ dataReads = 0
    /\ nextGen = 2
    /\ tr = [t \in Trainers |-> IdleTrainer]
    /\ rd = IdleReader
    /\ searched \in [Users -> SUBSET Products]
    /\ testOrders = <<>>
    /\ hybrid_service = 1
    /\ instances = {1}
    /\ th = [t \in RequestThreads |-> IdleThread]
    /\ cache = <<>>
    /\ origin = <<>>
    /\ calls = 0

SpecMatrix == InitMatrix /\ [][NextMatrix]_vars

\* ------------------------------- one ContentBasedFilteringStrategy.recommend
\* The content index built over the whole catalog, any cosine row, products
\* rated under and over MIN_RATING_THRESHOLD, users with and without search
\* keywords.
InitContent ==
    /\ FreshInit
    /\ content = [ready |-> TRUE, ids |-> Products]
    /\ catalog \in UnderRatedPrefixes
    /\ keywords \in {{}, ReqUsers}
    /\ similarity \in [Products -> Scores]
    /\ cfScore = [p \in Products |-> 0]
    /\ InitIdle

\* One call of ContentBasedFilteringStrategy.recommend with
\* context = {'current_product_id': current} (NoItem: no context item).
ContentRecommendCall(user_id, n_items, current) ==
    /\ req = None
    /\ req' = [op |-> "content", user |-> user_id, n |-> n_items,
               current |-> current]
    /\ \E l \in ContentRecommend(user_id, n_items, current, "none") :
          resp' = [op |-> "content", list |-> l]
    /\ UNCHANGED extVars
    /\ UNCHANGED <<dataUsers, dataProducts, dataReads, cfVars, catalog,
                   keywords, content, cfScore, similarity, artifact,
                   last_update, nextGen, tr, rd>>

NextContent ==
    \E user_id \in ReqUsers, n_items \in 0..MaxN,
       current \in {NoItem} \cup Products :
        ContentRecommendCall(user_id, n_items, current)

SpecContent == InitContent /\ [][NextContent]_vars

\* --------------------------------------- one diversify_recommendations call
\* all_products: any category per product, or the product missing from it.
CategoryDocs ==
    {[cat |-> c, rating |-> 3, reviews |-> 0] : c \in Categories}
\* Ranked lists without repeated ids, as recommend returns them.
RankedLists ==
    {l \in UNION {[1..n -> Products] : n \in 0..NProducts} :
        \A i, j \in 1..Len(l) : i # j => l[i] # l[j]}

InitDiversify ==
    /\ FreshInit
    /\ content = [ready |-> TRUE, ids |-> Products]
    /\ catalog \in [Products -> CategoryDocs \cup {NoDoc}]
    /\ keywords = {}
    /\ cfScore = [p \in Products |-> 0]
    /\ similarity = [p \in Products |-> 0]
    /\ InitIdle

Diversify(recommendations, max_per_category) ==
    /\ req = None
    /\ req' = [op |-> "diversify", recommendations |-> recommendations,
               max_per_category |-> max_per_category]
    /\ resp' = [op |-> "diversify",
                list |-> DiversifyRecommendations(recommendations,
                                                  max_per_category)]
    /\ UNCHANGED extVars
    /\ UNCHANGED <<dataUsers, dataProducts, dataReads, cfVars, catalog,
                   keywords, content, cfScore, similarity, artifact,
                   last_update, nextGen, tr, rd>>

NextDiversify ==
    \E recommendations \in RankedLists, max_per_category \in 1..MAX_PER_CATEGORY :
        Diversify(recommendations, max_per_category)

SpecDiversify == InitDiversify /\ [][NextDiversify]_vars

\* ------------------------------------ evaluate() over an orders collection
\* get_recent_test_orders(0.2): the newest max(1, int(0.2 * len)) orders of
\* the collection, which is sorted newest first.
TEST_SIZE_DIVISOR == 5
\* The whole collection in place of its newest part.
GetRecentTestOrdersUnsliced(all_orders) == all_orders
GetRecentTestOrders(all_orders) ==
    LET n == Len(all_orders) \div TEST_SIZE_DIVISOR
    IN  Take(all_orders, IF n > 1 THEN n ELSE 1)

\* Orders of user 1 for product 1, genuine or flagged synthetic, newest first.
OrderCollections ==
    UNION {[1..n -> {o \in Orders : o.user = 1 /\ o.items = {1}}] :
              n \in 0..MaxOrders}

\* The collaborative strategy trained on everything, every product rated
\* over the threshold.
InitTestSet ==
    /\ TrainedCf(1, Users, Products)
    /\ cfScore = [p \in Products |-> NProducts - p]
    /\ content = [ready |-> TRUE, ids |-> Products]
    /\ catalog = DefaultCatalog
    /\ keywords = {}
    /\ similarity = [p \in Products |-> 0]
    /\ InitIdle

\* GET /model/evaluate on a store whose orders collection is all_orders:
\* evaluate() reads its test orders and scores them.
EvaluateStore(all_orders, readOk) ==
    /\ req = None
    /\ CfIsReady \/ ContentIsReady
    /\ req' = [op |-> "evaluate", readOk |-> readOk, orders |-> all_orders]
    /\ testOrders' = IF readOk THEN GetRecentTestOrders(all_orders)
                     ELSE testOrders
    /\ resp' \in CfEvaluateOn(testOrders', readOk)
    /\ UNCHANGED <<searched, hybrid_service, instances, th, cache, origin,
                   calls>>
    /\ UNCHANGED <<dataUsers, dataProducts, dataReads, cfVars, catalog,
                   keywords, content, cfScore, similarity, artifact,
                   last_update, nextGen, tr, rd>>

NextTestSet ==
    \E all_orders \in OrderCollections, readOk \in BOOLEAN :
        EvaluateStore(all_orders, readOk)

SpecTestSet == InitTestSet /\ [][NextTestSet]_vars

\* ------------------------------------------------ _build_content_features
\* What ContentBasedFilteringStrategy.__init__ leaves for a products
\* collection: nothing when find_many returns no product; otherwise
\* product_ids is filled and fit_transform either yields the vectors or
\* raises (every term pruned by max_df), leaving product_vectors None.
BuildContentFeatures(cat) ==
    LET products == {p \in Products : cat[p] # NoDoc}
    IN  IF products = {}
        THEN {NoContent}
        ELSE {[ready |-> TRUE, ids |-> products],
              [ready |-> FALSE, ids |-> products]}

\* A process constructed over any products collection, the pickle present
\* or not, orders and ratings absent or covering every user and product.
InitRebuild ==
    /\ \/ /\ model = None
          /\ user_features = None
          /\ product_features = None
          /\ user_to_idx = EmptyMap
          /\ product_to_idx = EmptyMap
          /\ idx_to_product = EmptyMap
          /\ artifact = None
          /\ last_update = 0
       \/ /\ model = [NMF(1, 1) EXCEPT !.fit = 1, !.cols = {1, 2}]
          /\ user_features = Matrix(1, {1, 2})
          /\ product_features = Matrix(1, {1, 2})
          /\ user_to_idx = [gen |-> 1, ids |-> {1, 2}]
          /\ product_to_idx = [gen |-> 1, ids |-> {1, 2}]
          /\ idx_to_product = [gen |-> 1, ids |-> {1, 2}]
          /\ artifact = Snapshot
          /\ last_update = 1
    /\ \/ dataUsers = {} /\ dataProducts = {}
       \/ dataUsers = Users /\ dataProducts = Products
    /\ \E S \in SUBSET Products :
          catalog = [p \in Products |-> IF p \in S THEN DefaultCatalog[p]
                                                   ELSE NoDoc]
    /\ content \in BuildContentFeatures(catalog)
    /\ keywords = {}
    /\ cfScore = [p \in Products |-> 0]
    /\ similarity = [p \in Products |-> 0]
    /\ req = None
    /\ resp = None
    /\ dataReads = 0
    /\ nextGen = 2
    /\ tr = [t \in Trainers |-> IdleTrainer]
    /\ rd = IdleReader
    /\ InitExt

\* A product is added to the products collection the content strategy
\* reads in _build_content_features.
InsertProduct(p) ==
    /\ catalog[p] = NoDoc
    /\ catalog' = [catalog EXCEPT ![p] = DefaultCatalog[p]]
    /\ UNCHANGED extVars
    /\ UNCHANGED <<dataUsers, dataProducts, dataReads, cfVars, keywords,
                   content, cfScore, similarity, req, resp, artifact,
                   last_update, nextGen, tr, rd>>

NextRebuild ==
    \/ \E p \in Products : InsertProduct(p)
    \/ \E t \in Trainers, force \in BOOLEAN : TrainCall(t, force)
    \/ \E t \in Trainers : Prepare(t)
    \/ \E t \in Trainers : MapUsers(t)
    \/ \E t \in Trainers : MapProducts(t)
    \/ \E t \in Trainers : MapInverse(t)
    \/ \E t \in Trainers : BuildMatrix(t)
    \/ \E t \in Trainers : Construct(t)
    \/ \E t \in Trainers : Fit(t)
    \/ \E t \in Trainers : Components(t)
    \/ \E t \in Trainers : Save(t)
    \/ \E t \in Trainers : Stamp(t)
    \/ \E t \in Trainers : CheckContent(t)
    \/ \E t \in Trainers : TrainReturn(t)

SpecRebuild == InitRebuild /\ [][NextRebuild]_vars

\* ------------------------------------------------------------- readiness
\* HybridRecommendationStrategy.is_ready
HybridIsReady == CfIsReady \/ ContentIsReady

\* A process that loaded a pickle or found none; the orders and ratings
\* absent (deleted since the pickle was written) or covering every user and
\* product; the content index built at construction or not (fit_transform
\* raised).
InitReady ==
    /\ \/ /\ model = None
          /\ user_features = None
          /\ product_features = None
          /\ user_to_idx = EmptyMap
          /\ product_to_idx = EmptyMap
          /\ idx_to_product = EmptyMap
          /\ artifact = None
          /\ last_update = 0
       \/ /\ model = [NMF(1, 1) EXCEPT !.fit = 1, !.cols = {1, 2}]
          /\ user_features = Matrix(1, {1, 2})
          /\ product_features = Matrix(1, {1, 2})
          /\ user_to_idx = [gen |-> 1, ids |-> {1, 2}]
          /\ product_to_idx = [gen |-> 1, ids |-> {1, 2}]
          /\ idx_to_product = [gen |-> 1, ids |-> {1, 2}]
          /\ artifact = Snapshot
          /\ last_update = 1
    /\ \/ dataUsers = {} /\ dataProducts = {}
       \/ dataUsers = Users /\ dataProducts = 1..NDataProducts
    /\ catalog = DefaultCatalog
    /\ content \in BuildContentFeatures(catalog)
    /\ keywords = {}
    /\ cfScore = [p \in Products |-> NProducts - p]
    /\ similarity = [p \in Products |-> 0]
    /\ req = None
    /\ resp = None
    /\ dataReads = 0
    /\ nextGen = 2
    /\ tr = [t \in TrainThreads |-> IdleTrainer]
    /\ rd = IdleReader
    /\ InitExt

\* train on two threads (the background task and train_model_sync), forced
\* or not, interleaved with recommend and evaluate calls.
NextReady ==
    \/ \E t \in TrainThreads, force \in BOOLEAN : TrainCall(t, force)
    \/ \E t \in TrainThreads : Prepare(t)
    \/ \E t \in TrainThreads : MapUsers(t)
    \/ \E t \in TrainThreads : MapProducts(t)
    \/ \E t \in TrainThreads : MapInverse(t)
    \/ \E t \in TrainThreads : BuildMatrix(t)
    \/ \E t \in TrainThreads : Construct(t)
    \/ \E t \in TrainThreads : Fit(t)
    \/ \E t \in TrainThreads : Components(t)
    \/ \E t \in TrainThreads : Save(t)
    \/ \E t \in TrainThreads : Stamp(t)
    \/ \E t \in TrainThreads : CheckContent(t)
    \/ \E t \in TrainThreads : TrainReturn(t)
    \/ Recommend(1, 1, NoItem, "none")
    \/ Evaluate(TRUE)

SpecReady == InitReady /\ [][NextReady]_vars

\* ------------------------------------------------------------ claims, Spec

\* C1 (as claimed): a reader of the CF strategy running while a training call
\* runs never sees factor matrices of one training generation together with
\* index maps of another: every field a completed recommend read belongs to
\* the same generation.
C1_ReaderSeesOneGeneration == rd.pc = "done" => ~rd.torn

\* C8: a train(force_retrain=False) call entered while the CF model is loaded
\* and non-empty changes none of the model object, factor matrices, index
\* maps, persisted artifact and last-trained timestamp, reads no interaction
\* data, and returns success.
NoOpCall(c) == c.pc # "idle" /\ ~c.force /\ c.readyAtCall
C8_NoOpTrainChangesNothing ==
    [][\A t \in Trainers :
         (tr[t].pc # tr'[t].pc /\ (NoOpCall(tr[t]) \/ NoOpCall(tr'[t])))
         => /\ UNCHANGED <<cfVars, artifact, last_update, dataReads>>
            /\ tr'[t].pc = "done" => tr'[t].result = "success"]_vars
C8_Witness ==
    \E t \in Trainers : NoOpCall(tr[t]) /\ tr[t].pc = "done"
                        /\ tr[t].result = "success"

\* C9 (as claimed): when the aggregator signals insufficient data, the train
\* operation of the serving layer returns failure whether or not the content
\* index is ready.
C9_InsufficientDataFails ==
    \A t \in Trainers :
        (tr[t].pc = "done" /\ tr[t].insufficient) => tr[t].result = "failure"

\* C9 (amended): when the aggregator signals insufficient data,
\* CollaborativeFilteringStrategy.train returns False, and
\* HybridRecommendationStrategy.train returns False exactly when the content
\* index is not ready (True when it is); no exception escapes either.
C9_InsufficientDataFailsUnlessContentReady ==
    \A t \in Trainers :
        (tr[t].pc = "done" /\ tr[t].insufficient)
        => /\ ~tr[t].cf_success
           /\ tr[t].result = IF ContentIsReady THEN "success" ELSE "failure"
C9_Witness ==
    \E t \in Trainers : /\ tr[t].pc = "done" /\ tr[t].insufficient
                        /\ ContentIsReady /\ tr[t].result = "success"

\* C10 (as claimed): when CollaborativeFilteringStrategy.train returns
\* success after retraining, the artifact at MODEL_PATH holds the factor
\* matrices and index maps of that generation and the last-trained timestamp
\* was written.
C10_SuccessImpliesPersisted ==
    \A t \in Trainers :
        (tr[t].pc \in {"content", "done"} /\ tr[t].cf_success /\ tr[t].gen # 0)
        => /\ tr[t].stamped
           /\ artifact.tag = "Pickle"
           /\ artifact.user_features.gen = tr[t].gen
           /\ artifact.product_features.gen = tr[t].gen
           /\ artifact.user_to_idx.gen = tr[t].gen
           /\ artifact.product_to_idx.gen = tr[t].gen

\* The published model as __init__ or a completed training leaves it:
\* nothing loaded and empty maps, or a fitted model object whose factor
\* matrices have the rows and columns the index maps name.
PublishedAgree ==
    IF model = None \/ user_features = None \/ product_features = None
    THEN /\ model = None /\ user_features = None /\ product_features = None
         /\ user_to_idx.ids = {} /\ product_to_idx.ids = {}
         /\ idx_to_product.ids = {}
    ELSE /\ model.fit = user_features.gen
         /\ model.fit = product_features.gen
         /\ user_features.ids = user_to_idx.ids
         /\ product_features.ids = product_to_idx.ids
         /\ idx_to_product.ids = product_to_idx.ids

\* C20: when CollaborativeFilteringStrategy.train returns failure, whatever
\* the reason, the model object, the factor matrices and the three index
\* maps are what they were before the call, so the factor matrices still
\* agree with the index maps.
C20_FailedTrainKeepsModel ==
    \A t \in Trainers :
        (tr[t].pc \in {"content", "done"} /\ ~tr[t].cf_success
            /\ tr[t].gen # 0)
        => PublishedAgree

\* ---------------------------------------------------- claims, SpecRecommend
Answered == resp # None
Returned == IF Answered THEN resp.list ELSE <<>>
NoRepeats(l) == \A i, j \in 1..Len(l) : i # j => l[i] # l[j]
\* a is at least as popular as b: average rating first, review count second.
AtLeastAsPopular(a, b) ==
    \/ catalog[a].rating > catalog[b].rating
    \/ /\ catalog[a].rating = catalog[b].rating
       /\ catalog[a].reviews >= catalog[b].reviews
\* l is the first n of S in popularity order, or all of S if S has fewer.
TopByPopularity(l, S, n) ==
    /\ Range(l) \subseteq S
    /\ NoRepeats(l)
    /\ Len(l) = Min(n, Cardinality(S))
    /\ \A i, j \in 1..Len(l) : i < j => AtLeastAsPopular(l[i], l[j])
    /\ \A i \in 1..Len(l) : \A q \in S \ Range(l) : AtLeastAsPopular(l[i], q)
InCatalog == {p \in Products : catalog[p] # NoDoc}
AboveThreshold == {p \in InCatalog : catalog[p].rating >= MIN_RATING_THRESHOLD}
NoStrategyReady == ~CfIsReady /\ ~ContentIsReady

\* C2: the list recommend returns is never longer than n_items, for every
\* n_items >= 0, in every readiness state and on every path.
C2_AtMostNItems == Answered => Len(Returned) <= req.n

\* C3: the list recommend returns holds no item id twice, whether the
\* candidates come from one strategy, from both, or from the fallback.
C3_NoDuplicateIds == Answered => NoRepeats(Returned)
\* Both strategies offered the same product and the scored path returned
\* two or more items.
C3_Witness ==
    /\ Answered
    /\ resp.path = "hybrid"
    /\ Len(Returned) >= 2
    /\ \E cf \in CfRecommend(req.user, req.n * 3, req.current, req.fault),
          ct \in ContentRecommend(req.user, req.n * 3, req.current, req.fault) :
            Range(cf) \cap Range(ct) # {}

\* C4: when the request names a current product, the returned list never
\* holds it, in every readiness state and on every path.
C4_NeverTheCurrentProduct ==
    (Answered /\ req.current # NoItem /\ req.n >= 1)
    => req.current \notin Range(Returned)

\* C5: recommend never lets an exception out: whatever fails, the caller
\* gets a list, and the empty list when the fallback itself fails.
C5_NeverRaises ==
    Answered => /\ ~resp.raised
                /\ resp.path = "failed" => Returned = <<>>
\* The category query raised inside the fallback and the caller got [].
C5_Witness ==
    /\ Answered
    /\ req.fault = "category"
    /\ resp.path = "failed"
    /\ ~resp.raised
    /\ Returned = <<>>

\* C6, as the spec states it: with no strategy ready and no current
\* product, recommend returns the catalog's items in popularity order
\* (rating descending, then review count descending) cut to n_items.
C6_PopularityOrderOfTheCatalog ==
    (Answered /\ NoStrategyReady /\ req.current = NoItem
        /\ req.fault = "none" /\ req.n >= 1)
    => TopByPopularity(Returned, InCatalog, req.n)
\* C6, as the code has it: with no strategy ready, no current product and
\* n_items >= 1, recommend returns the catalog's items rated at least
\* MIN_RATING_THRESHOLD, in popularity order, cut to n_items; and the empty
\* list if the popularity query fails.
C6_PopularityOrderAboveThreshold ==
    (Answered /\ NoStrategyReady /\ req.current = NoItem /\ req.n >= 1)
    => IF req.fault = "popular"
       THEN Returned = <<>>
       ELSE TopByPopularity(Returned, AboveThreshold, req.n)
\* A catalog with an item under the threshold and more eligible items, of
\* differing popularity, than were asked for.
C6_Witness ==
    /\ Answered /\ NoStrategyReady /\ req.current = NoItem
    /\ req.fault = "none" /\ req.n >= 1
    /\ InCatalog # AboveThreshold
    /\ Len(Returned) = req.n
    /\ \E q \in AboveThreshold \ Range(Returned) :
          ~AtLeastAsPopular(q, Returned[1])

\* The other catalog items holding the current product's category.
SameCategory ==
    IF req.current \in InCatalog
    THEN {p \in InCatalog \ {req.current} :
             /\ catalog[req.current].cat # NoCategory
             /\ catalog[p].cat = catalog[req.current].cat}
    ELSE {}
\* C7: in the degraded state the fallback answers with (a) the items of the
\* current product's category, by rating then review count, and with (b)
\* catalog-wide popularity exactly when there is no current product, its
\* category cannot be looked up, or (a) is empty.
C7_CategoryBeforePopularity ==
    (Answered /\ resp.path # "hybrid" /\ req.fault = "none" /\ req.n >= 1)
    => /\ resp.path = "popular" <=> SameCategory = {}
       /\ resp.path = "category"
            => TopByPopularity(Returned, SameCategory, req.n)
       /\ resp.path = "popular"
            => TopByPopularity(Returned, AboveThreshold, req.n)

\* Score first, catalog position second: the one order of S by descending
\* score with equal scores in catalog insertion order.
CatalogOrderKey(scored) ==
    [p \in DOMAIN scored |-> scored[p] * (NProducts + 1) + (NProducts - p)]

\* C13: candidates with equal hybrid score come out in catalog insertion
\* order, so the list of a scored recommend call is the top n_items of the
\* candidates by (hybrid score descending, catalog position ascending) and
\* does not depend on the iteration order of the candidate set.
C13_TiesInCatalogOrder ==
    (Answered /\ resp.path = "hybrid" /\ req.fault = "none") =>
      \E cf \in CfRecommend(req.user, req.n * 3, req.current, req.fault),
         ct \in ContentRecommend(req.user, req.n * 3, req.current, req.fault) :
          LET S == Range(cf) \cup Range(ct)
              scored == ScoreCandidates(req.user, S, req.current, req.fault)
          IN  resp.list
                \in {Take(s, req.n) : s \in SortedBy(S, CatalogOrderKey(scored))}

\* A user the latent-factor model has no row for.
ColdStart == req.user \notin user_to_idx.ids \/ ~CfIsReady

\* C27: for a user unknown to the latent-factor model, trained or not, the
\* latent path returns no candidates and score 0 for every item; every
\* candidate's hybrid score is w_content * norm_content with no consensus
\* boost, and the returned list is the top n_items of the content
\* candidates in descending content score.
C27_ColdStartIsContentOnly ==
    (Answered /\ req.fault = "none" /\ ColdStart) =>
      /\ CfRecommend(req.user, req.n * 3, req.current, req.fault) = {<<>>}
      /\ \A S \in SUBSET Products :
            CfGetScores(req.user, S, req.fault) = [p \in S |-> 0]
      /\ resp.path = "hybrid" =>
            \E ct \in ContentRecommend(req.user, req.n * 3, req.current,
                                       req.fault) :
              LET S == Range(ct)
                  scored == ScoreCandidates(req.user, S, req.current,
                                            req.fault)
                  norm == ContentNormalized(req.user, S, req.current,
                                            req.fault)
                  l == resp.list
              IN  /\ \A p \in S :
                        scored[p] = CONTENT_WEIGHT * norm.num[p] * NO_BOOST
                  /\ Len(l) = Min(req.n, Cardinality(S))
                  /\ Range(l) \subseteq S
                  /\ \A i, j \in 1..Len(l) :
                        i < j => l[i] # l[j] /\ norm.num[l[i]] >= norm.num[l[j]]
                  /\ \A p \in Range(l), q \in S \ Range(l) :
                        norm.num[p] >= norm.num[q]
\* A trained model, a user it does not know, two content candidates of
\* different similarity returned in that order.
C27_Witness ==
    /\ Answered /\ req.fault = "none"
    /\ CfIsReady /\ req.user \notin user_to_idx.ids
    /\ \E p \in Products : cfScore[p] > 0
    /\ resp.path = "hybrid"
    /\ Len(resp.list) = 2
    /\ similarity[resp.list[1]] > similarity[resp.list[2]]

Scored == resp # None
AllEqual(raw) == \A k, l \in DOMAIN raw : raw[k] = raw[l]

\* C11: every normalised score lies in [0,1]; unless the raw scores are all
\* equal some candidate gets exactly 1 and some exactly 0; if they are all
\* equal every non-zero score becomes 1 and every zero score 0, and nothing
\* is divided by zero.
C11_NormalizedRange ==
    Scored =>
      LET raw == resp.cf_raw
          num == resp.cf.num
          den == resp.cf.den
      IN  /\ DOMAIN num = DOMAIN raw
          /\ den >= 1
          /\ \A k \in DOMAIN raw : 0 <= num[k] /\ num[k] <= den
          /\ ~AllEqual(raw) => /\ \E k \in DOMAIN raw : num[k] = den
                               /\ \E k \in DOMAIN raw : num[k] = 0
          /\ AllEqual(raw) => \A k \in DOMAIN raw :
                                 num[k] = IF raw[k] # 0 THEN den ELSE 0
\* A map with three different raw scores: one candidate strictly inside (0,1).
C11_Witness ==
    /\ Scored
    /\ ~AllEqual(resp.cf_raw)
    /\ \E k \in DOMAIN resp.cf_raw :
          0 < resp.cf.num[k] /\ resp.cf.num[k] < resp.cf.den

\* ---------------------------------------------------------- claims, SpecScore
\* The weighted sum w_cf * norm_cf + w_content * norm_content of candidate p,
\* times 10 * cf.den * content.den.
WeightedSum(p) ==
    CF_WEIGHT * resp.cf.num[p] * resp.content.den
      + CONTENT_WEIGHT * resp.content.num[p] * resp.cf.den
Consensus(p) == resp.cf.num[p] > 0 /\ resp.content.num[p] > 0
OneStrategyOnly(p) == (resp.cf.num[p] > 0) # (resp.content.num[p] > 0)
Position(s, p) == CHOOSE i \in 1..Len(s) : s[i] = p

\* C12: the hybrid score is the weighted sum, times 1.2 exactly when both
\* normalised scores are > 0; so of two candidates with equal weighted sums
\* the one scored by both strategies ranks at or above (here: strictly
\* above) the one scored by a single strategy.
C12_ConsensusBoost ==
    Scored =>
      /\ \A p \in req.ids :
            resp.hybrid[p] * 10
              = WeightedSum(p) * 10 * (IF Consensus(p) THEN 12 ELSE 10)
      /\ \A p, q \in req.ids :
            (WeightedSum(p) = WeightedSum(q) /\ Consensus(p)
                /\ OneStrategyOnly(q))
            => /\ resp.hybrid[p] >= resp.hybrid[q]
               /\ \A s \in SortedBy(req.ids, resp.hybrid) :
                     Position(s, p) < Position(s, q)
\* Two candidates whose weighted sums balance, one with both scores > 0.
C12_Witness ==
    /\ Scored
    /\ \E p, q \in req.ids :
          /\ WeightedSum(p) = WeightedSum(q)
          /\ Consensus(p)
          /\ OneStrategyOnly(q)

\* ------------------------------------------------------ claims, SpecAggregate
\* _prepare_interaction_matrix has built its three index maps.
Aggregated(t) == tr[t].pc \in {"matrix", "construct"}
SearchUsers == keywords \cup {u \in Users : searched[u] # {}}
SearchItems == UNION {searched[u] : u \in Users}

\* C14: after aggregation the user and item index maps hold every user and
\* every item of the purchases, the ratings and the search history; a user
\* whose only activity is search history is in user_to_idx.
C14_SearchUsersIndexed ==
    \A t \in Trainers :
        Aggregated(t) =>
          /\ dataUsers \cup SearchUsers \subseteq user_to_idx.ids
          /\ dataProducts \cup SearchItems \subseteq product_to_idx.ids

\* --------------------------------------------------------- claims, SpecRerank
\* The Business Rule Reranker: apply_rules, then the diversity pass.
Rerank(l) == DiversifyRecommendations(ApplyRules(l), MAX_PER_CATEGORY)

\* C15: the list a non-fallback recommend call returns is the output of the
\* Business Rule Reranker on the hybrid-scored candidates (reranking the
\* top n_items, or reranking all candidates and cutting to n_items).
C15_ListIsReranked ==
    (Answered /\ resp.path = "hybrid" /\ req.fault = "none") =>
      \E cf \in CfRecommend(req.user, req.n * 3, req.current, req.fault),
         ct \in ContentRecommend(req.user, req.n * 3, req.current, req.fault) :
          LET S == Range(cf) \cup Range(ct)
              scored == ScoreCandidates(req.user, S, req.current, req.fault)
          IN  \E s \in SortedBy(S, scored) :
                 \/ resp.list = Rerank(Take(s, req.n))
                 \/ resp.list = Take(Rerank(s), req.n)

\* ------------------------------------------------------- claims, SpecEvaluate
\* evaluate ran its loop: the strategy was ready and no read raised.
LoopRan == resp # None /\ req.readOk /\ CfIsReady
\* Order i is one evaluate iterates over: not synthetic, unless all are.
IsTestOrder(i) ==
    \/ ~testOrders[i].synthetic
    \/ \A j \in 1..Len(testOrders) : testOrders[j].synthetic
HasUserAndItems(i) ==
    /\ IsTestOrder(i)
    /\ testOrders[i].user \in user_to_idx.ids
    /\ testOrders[i].items # {}
HasRecommendations(i) == resp.recommended[testOrders[i].user] # <<>>
\* The k-th smallest element of a set of indices.
Nth(I, k) == CHOOSE i \in I : Cardinality({j \in I : j <= i}) = k
AddFractions(x, y) ==
    [num |-> x.num * y.den + y.num * x.den, den |-> x.den * y.den]
RECURSIVE SumOfFractions(_)
SumOfFractions(fs) ==
    IF fs = <<>> THEN Zero
    ELSE AddFractions(Head(fs), SumOfFractions(Tail(fs)))
\* m is the arithmetic mean of fs, or 0 when fs is empty.
IsMeanOf(m, fs) ==
    IF fs = <<>> THEN m.num = 0
    ELSE m.num * SumOfFractions(fs).den * Len(fs)
           = SumOfFractions(fs).num * m.den
\* The orders behind the entries of resp.precisions are the orders of I, in
\* order, each with precision |relevant| / |recommended| and recall
\* |relevant| / |actual|; the reported figures are their means and the f1
\* of the means.
MetricsOver(I) ==
    /\ Len(resp.precisions) = Cardinality(I)
    /\ Len(resp.recalls) = Cardinality(I)
    /\ \A k \in 1..Cardinality(I) :
          LET o == testOrders[Nth(I, k)]
              recommended == resp.recommended[o.user]
              relevant == o.items \cap Range(recommended)
          IN  /\ resp.precisions[k].num * Len(recommended)
                   = Cardinality(relevant) * resp.precisions[k].den
              /\ resp.recalls[k].num * Cardinality(o.items)
                   = Cardinality(relevant) * resp.recalls[k].den
    /\ IsMeanOf(resp.precision, resp.precisions)
    /\ IsMeanOf(resp.recall, resp.recalls)
    /\ LET P == resp.precision
           R == resp.recall
       IN  IF P.num * R.den + R.num * P.den > 0
           THEN resp.f1.num * (P.num * R.den + R.num * P.den)
                  = 2 * P.num * R.num * resp.f1.den
           ELSE resp.f1.num = 0

\* C16: the list evaluate scores for a test order's user is a list
\* HybridRecommendationStrategy.recommend returns for that user, the same
\* k and no context.
C16_ScoresTheServedList ==
    LoopRan =>
      \A i \in 1..Len(testOrders) :
          (HasUserAndItems(i) /\ HasRecommendations(i)) =>
             resp.recommended[testOrders[i].user]
               \in {r.list : r \in HybridRecommend(testOrders[i].user,
                                                  EVAL_N_ITEMS, NoItem, "none")}

\* C17 (as stated): evaluate averages over exactly the test orders with a
\* known user and at least one actual item.
C17_AveragesOverKnownUserOrders ==
    LoopRan =>
      MetricsOver({i \in 1..Len(testOrders) : HasUserAndItems(i)})
\* C17 (amended): evaluate averages over exactly the test orders with a
\* known user, at least one actual item and a non-empty recommendation
\* list; each contributes precision |relevant|/|recommended| and recall
\* |relevant|/|actual|, every other order contributes nothing, precision
\* and recall are arithmetic means and f1 = 2PR/(P+R), or 0 when P+R = 0.
C17_AveragesOverEvaluatedOrders ==
    LoopRan =>
      MetricsOver({i \in 1..Len(testOrders) :
                      HasUserAndItems(i) /\ HasRecommendations(i)})
\* Two test orders, one skipped and one contributing a precision strictly
\* between 0 and 1, which is the reported precision.
C17_Witness ==
    /\ LoopRan
    /\ Len(testOrders) = 2
    /\ Len(resp.precisions) = 1
    /\ 0 < resp.precision.num
    /\ resp.precision.num < resp.precision.den
    /\ resp.f1.num > 0

\* -------------------------------------------------------- claims, SpecService
\* C18: within one process at most one engine instance is ever created,
\* also when the first requests arrive concurrently, and every request
\* operates on that same instance.
C18_OneEngineInstance ==
    /\ Cardinality(instances) <= 1
    /\ \A t, u \in RequestThreads :
          (th[t].pc = "done" /\ th[u].pc = "done")
            => th[t].service = th[u].service

\* ---------------------------------------------------------- claims, SpecCache
\* C19: a list served from the cache for (user_id, context item id,
\* n_items) is a list recommend returned earlier, within the TTL, for that
\* same triple; distinct triples never share an entry.
C19_HitServesOwnTriple ==
    (resp # None /\ resp.source = "cache") => resp.origin = req

\* ----------------------------------------------------- claims, SpecOverlap
\* A thread inside train: called and not yet returned to the endpoint.
Training(t) == tr[t].pc \notin {"idle", "done"}

\* C21 (as claimed): no two training operations overlap within one process:
\* while one thread is inside train, no other thread is inside train.
C21_TrainsDoNotOverlap ==
    \A s, t \in TrainThreads : (Training(s) /\ Training(t)) => s = t

\* ------------------------------------------------------ claims, SpecRefuse
\* A training call whose matrix has rows and columns but too few of them for
\* one component.
BelowOneComponent(c) ==
    /\ c.pc # "idle"
    /\ c.users # {} /\ c.prods # {}
    /\ ComponentCount(c.users, c.prods) < 1

\* C22 (as claimed): whenever min(N_COMPONENTS, min(n_users, n_items) - 1) is
\* below 1, CollaborativeFilteringStrategy.train returns failure and no step
\* of the call changes the published model object, factor matrices or index
\* maps.
C22_RefusedTrainPublishesNothing ==
    [][\A t \in Trainers :
         (tr[t].pc # tr'[t].pc /\ BelowOneComponent(tr'[t]))
         => /\ UNCHANGED cfVars
            /\ tr'[t].pc \in {"content", "done"} => ~tr'[t].cf_success]_vars

\* ------------------------------------------------------ claims, SpecMatrix
Prepared == resp # None /\ resp.op = "prepare" /\ resp.interactions # None
\* The sum of g over the records of a list, taken record by record.
RECURSIVE SumOfRecords(_, _)
SumOfRecords(g, I) ==
    IF I = {} THEN 0
    ELSE LET i == CHOOSE j \in I : TRUE IN g[i] + SumOfRecords(g, I \ {i})
\* Ten times the weight the store gives user u and product p: quantity * 2.0
\* per purchase line, max(rating * 0.6 + sentiment * 0.4, 0) per rating and
\* 0.5 if the product is among the user's searched products.
StoreWeight(u, p) ==
    LET lines == {i \in DOMAIN req.orders :
                     req.orders[i].user = u /\ req.orders[i].product = p}
        rated == {i \in DOMAIN req.ratings :
                     req.ratings[i].user = u /\ req.ratings[i].product = p}
        tenths(r) == 6 * r.rating + 4 * (r.positive - r.negative)
    IN  SumOfRecords([i \in lines |-> 20 * req.orders[i].quantity], lines)
        + SumOfRecords([i \in rated |->
                           IF tenths(req.ratings[i]) > 0
                           THEN tenths(req.ratings[i]) ELSE 0], rated)
        + (IF p \in searched[u] THEN 5 ELSE 0)

\* C23: each entry of the aggregated matrix is the store's weight for its
\* user and product, rescaled by one common factor; every entry lies in
\* [0, 5], and the largest entry is exactly 5 whenever some entry is not zero.
C23_MatrixIsRescaledSum ==
    Prepared =>
      LET num == resp.interactions.num
          den == resp.interactions.den
      IN  /\ den > 0
          /\ \A c \in DOMAIN num : 0 <= num[c] /\ num[c] <= 5 * den
          /\ \A c, d \in DOMAIN num :
                num[c] * StoreWeight(d[1], d[2])
                  = num[d] * StoreWeight(c[1], c[2])
          /\ \A c \in DOMAIN num : (num[c] = 0) <=> (StoreWeight(c[1], c[2]) = 0)
          /\ (\E c \in DOMAIN num : num[c] # 0)
                => \E c \in DOMAIN num : num[c] = 5 * den
\* A purchase, a rating whose comment outweighs its value and a search meet
\* in one matrix: a clipped rating cell, a cell strictly inside (0, 5).
C23_Witness ==
    /\ Prepared
    /\ \E i \in DOMAIN req.ratings :
          6 * req.ratings[i].rating
            + 4 * (req.ratings[i].positive - req.ratings[i].negative) < 0
    /\ \E c \in DOMAIN resp.interactions.num :
          /\ 0 < resp.interactions.num[c]
          /\ resp.interactions.num[c] < 5 * resp.interactions.den
          /\ c[2] \in searched[c[1]]
          /\ \E i \in DOMAIN req.orders :
                req.orders[i].user = c[1] /\ req.orders[i].product = c[2]

\* ----------------------------------------------------- claims, SpecContent
ContentAnswered == resp # None /\ resp.op = "content"
\* The query modes: item-to-item (the context item is indexed) and
\* keyword-to-item (no indexed context item, the user has keywords).
ItemMode == req.current # NoItem /\ req.current \in content.ids
KeywordMode == ~ItemMode /\ req.user \in keywords
\* The indexed items whose average rating meets the floor, the query item
\* left out.
MeetFloor ==
    {p \in content.ids :
        /\ catalog[p] # NoDoc
        /\ catalog[p].rating >= MIN_RATING_THRESHOLD
        /\ ~(ItemMode /\ p = req.current)}
\* l is n of the most similar items of S, most similar first.
MostSimilar(l, S, n) ==
    /\ Len(l) = Min(n, Cardinality(S))
    /\ Range(l) \subseteq S
    /\ \A i, j \in 1..Len(l) : i < j => /\ l[i] # l[j]
                                        /\ similarity[l[i]] >= similarity[l[j]]
    /\ \A p \in Range(l), q \in S \ Range(l) : similarity[p] >= similarity[q]

\* C24 (as claimed): in both content query modes the result is the N most
\* similar items among those meeting the rating floor; with at least N such
\* items exactly N are returned.
C24_FloorBeforeTruncation ==
    (ContentAnswered /\ (ItemMode \/ KeywordMode))
    => MostSimilar(resp.list, MeetFloor, req.n)

\* --------------------------------------------------- claims, SpecDiversify
Diversified == resp # None /\ resp.op = "diversify"
\* The item at rank i passes the cap: it is a known product and fewer than
\* max_per_category known products of its category are ranked above it.
PassesCap(l, i, cap) ==
    /\ catalog[l[i]] # NoDoc
    /\ Cardinality({j \in 1..(i - 1) :
                       /\ catalog[l[j]] # NoDoc
                       /\ CategoryText(catalog[l[j]])
                            = CategoryText(catalog[l[i]])}) < cap
\* The items of l at the ranks in I, in rank order.
RECURSIVE AtRanks(_, _)
AtRanks(l, I) ==
    IF I = {} THEN <<>>
    ELSE LET i == CHOOSE k \in I : \A m \in I : k <= m
         IN  <<l[i]>> \o AtRanks(l, I \ {i})

\* C25 (as claimed): for a list of known products, the output is the items
\* passing the cap, in rank order;
\* when the cap removed more than half of the input the excluded items follow
\* in rank order and the output is as long as the input; when it removed half
\* or less nothing is added back.
C25_BackfillAboveHalf ==
    (Diversified /\ \A p \in Range(req.recommendations) : catalog[p] # NoDoc)
    =>
      LET l == req.recommendations
          kept == {i \in 1..Len(l) : PassesCap(l, i, req.max_per_category)}
          cut == (1..Len(l)) \ kept
      IN  IF 2 * Cardinality(cut) > Len(l)
          THEN resp.list = AtRanks(l, kept) \o AtRanks(l, cut)
          ELSE resp.list = AtRanks(l, kept)

\* ----------------------------------------------------- claims, SpecTestSet
StoreEvaluated == resp # None /\ req.op = "evaluate" /\ req.readOk
Genuine(order) == ~order.synthetic

C28_ForcedTrainRebuildsContent ==
    [][\A t \in Trainers :
         (/\ tr[t].pc = "content" /\ tr'[t].pc = "done"
          /\ tr[t].force
          /\ ~ContentIsReady
          /\ InCatalog # {})
         => (content'.ready /\ content'.ids = InCatalog)]_vars

\* ----------------------------------------------------------- claims, SpecReady
\* C29: once is_ready() of the latent-factor strategy, of the content
\* strategy or of the hybrid strategy holds, it holds after every later
\* step of any interleaving of train (successful or failed), recommend and
\* evaluate; so does each field test is_ready reads in turn.
C29_ReadinessIsMonotone ==
    [][/\ CfIsReady => CfIsReady'
       /\ ContentIsReady => ContentIsReady'
       /\ HybridIsReady => HybridIsReady'
       /\ model # None => model' # None
       /\ user_features # None => user_features' # None
       /\ product_features # None => product_features' # None
       /\ user_to_idx.ids # {} => user_to_idx'.ids # {}
       /\ product_to_idx.ids # {} => product_to_idx'.ids # {}]_vars
\* A forced train entered while the strategy was ready has failed and a
\* recommend call has been answered since: the strategies are still ready.
C29_Witness ==
    /\ \E t \in TrainThreads :
          /\ tr[t].pc = "done" /\ tr[t].readyAtCall /\ tr[t].force
          /\ ~tr[t].cf_success
    /\ resp # None
    /\ CfIsReady /\ ContentIsReady /\ HybridIsReady

====
